---- MODULE Spec2Model ----
(***************************************************************************)
(* The sender side of the LAN file transfer (src/src/App.tsx): the file    *)
(* queue, sendFiles, sendSingleFile with its WebSocket handlers and its    *)
(* streaming loop, cancelSending, the queue edits of the send screen and   *)
(* the Android send path.  The receiving peer, whose code (the Rust        *)
(* backend) is not part of the sources, follows section 4.2 of the         *)
(* specification.                                                          *)
(*                                                                         *)
(* Byte counts are in MiB.  One action is one JavaScript task together     *)
(* with the microtasks it queues: a socket event handler and the           *)
(* continuation of sendFiles that its resolve/reject wakes up run in the   *)
(* same step, up to the next await.                                        *)
(***************************************************************************)
EXTENDS Integers, Sequences, FiniteSets, TLC

(* ------------------------------ bounds -------------------------------- *)

\* the connections the transfer listener serves at a time
MaxConns == 2
\* the most bytes (in units) a remote sender puts on one connection
MaxBytes == 1
\* instance ids in play, the local one included
MaxIds == 2
\* seconds the clock runs
MaxTime == 32
\* chat connections made in a run
MaxChatConns == 3
\* notifications waiting for the page
MaxEvents == 2
\* nodes that sync their clipboards
MaxNodes == 2
\* clipboard messages waiting at a node
MaxInbox == 2
\* local copies in a run
MaxCopies == 1
\* chat messages sent in a run
MaxMsgs == 1

\* the longest selection the file dialog returns
MaxQueue == 3
\* the largest chunk one reader.read() returns, in MiB
MaxChunk == 2
\* documents the storage plugin creates
MaxDocs == 3
\* threads calling into the storage plugin at once
MaxThreads == 2
\* pick invocations
MaxPicks == 3
\* files transferred to the receive screen
MaxRxFiles == 3
\* connections between two chatting nodes at a time
MaxLinks == 4
\* the size of the large file, in MiB
BigSize == 7

(* ------------------------- program constants -------------------------- *)

\* const HIGH_WATER_MARK = 4 * 1024 * 1024, in MiB
HIGH_WATER_MARK == 4
\* the close code the receiver cancels with
CANCEL_CODE == 4001
\* a normal close
\* seconds after which a device that did not advertise is stale
STALE_SECS == 30
\* the received files the panel keeps
KEEP_RECENT == 10
NORMAL_CODE == 1000
\* the close code of a failed connection
ABNORMAL_CODE == 1006

(* ------------------------------ files --------------------------------- *)

NoFile == [name |-> "", size |-> 0]
FileA == [name |-> "a", size |-> 0]
FileB == [name |-> "b", size |-> 1]
BigFile == [name |-> "big", size |-> BigSize]

\* what the file dialog / a drop can return: b and a in turn
Selection(n) == [k \in 1..n |-> IF k % 2 = 1 THEN FileB ELSE FileA]
QueueSelections == {Selection(n) : n \in 1..MaxQueue}
BigSelections == {<<BigFile>>, <<BigFile, FileA>>}

VARIABLES
  picker,            \* the selections the user can make (fixed)
  isAndroid,         \* the platform (fixed)
  fileQueue,         \* useState<FileQueueItem[]>
  sendStatus,        \* useState<SendStatus>
  currentFileIndex,  \* useState<number>, -1 when no run
  cancelSendingRef,  \* useRef<boolean>
  sendingProgress,   \* useState: TRUE when not null
  run,               \* the active sendFiles call: its closure and loop index
  xfers,             \* the sockets of sendSingleFile calls, by slot
  android,           \* where handleAndroidSend is
  alert,             \* the last alert() shown
  last,              \* the last close event or settlement of a sendSingleFile promise
  recv,              \* this node as a receiver: the transfer listener and its sessions
  disc,              \* this node's discovery: the clock and the device registry
  chat,              \* this node's chat: the connection map and the chat screen
  clip,              \* clipboard sync: every node's clipboard, hash and inbound messages
  duo,               \* two nodes chatting with each other: pages, managers, connections
  plugin,            \* the Android storage plugin: writers, documents, pickers
  rxui               \* the receive screen: what the transfer listeners left in its state

sendVars == <<picker, isAndroid, fileQueue, sendStatus, currentFileIndex,
              cancelSendingRef, sendingProgress, run, xfers, android, alert, last>>
\* what the send screen leaves alone
\* what the four subsystems above leave alone
more == <<duo, plugin, rxui>>
rest == <<recv, disc, chat, clip, more>>
vars == <<sendVars, rest>>

Slots == DOMAIN xfers
NoError == "none"
\* run.fresh: the run started on a queue of pending items; run.edited: the
\* queue was edited since the run started; run.stale: the cancel flag was set
\* when the run started (all three only observe)
NoRun == [active |-> FALSE, files |-> <<>>, i |-> 0, cur |-> 0,
          fresh |-> FALSE, edited |-> FALSE, stale |-> FALSE]
\* last: the last close event or settlement of a sendSingleFile promise:
\* the close code (0: none), the promise after it, whether it settled it,
\* and the bytes sent by then (it only observes)
NoLast == [index |-> -1, size |-> 0, sent |-> 0, code |-> 0, outcome |-> "none",
           settled |-> FALSE]

Min(S) == CHOOSE m \in S : \A k \in S : m <= k

\* a FileQueueItem as the onChange / onDrop handlers build it
Item(f) == [file |-> f, status |-> "pending", error |-> NoError]

\* setFileQueue(prev => prev.map((item, i) => i === index ? {...item, status, error} : item))
updateItemStatus(q, index, status, error) ==
  [k \in 1..Len(q) |->
     IF k = index + 1 THEN [q[k] EXCEPT !.status = status, !.error = error]
     ELSE q[k]]

(* ----------------------------- sockets -------------------------------- *)

Free == [sock |-> "FREE", file |-> NoFile, index |-> 0, pc |-> "idle",
         value |-> 0, bytesSent |-> 0, bufferedAmount |-> 0,
         hasError |-> FALSE, promise |-> "none", peer |-> "none",
         inRun |-> FALSE, total |-> 0, wire |-> <<>>]

\* new WebSocket(`ws://${ip}:7878`) inside new Promise(...)
\* total: the totalFiles argument; wire: what the page has sent on the socket
NewSocket(f, i, total) ==
  [sock |-> "CONNECTING", file |-> f, index |-> i, pc |-> "idle",
   value |-> 0, bytesSent |-> 0, bufferedAmount |-> 0,
   hasError |-> FALSE, promise |-> "pending", peer |-> "listening",
   inRun |-> TRUE, total |-> total, wire |-> <<>>]

\* what goes out on a socket: the metadata message, binary data of a file
\* (consecutive frames are kept as one byte range from..to), the close
Frame(kind, name, size, index, total, from, to) ==
  [kind |-> kind, name |-> name, size |-> size, index |-> index,
   total |-> total, from |-> from, to |-> to]
CloseFrame == Frame("close", "", 0, 0, 0, 0, 0)

\* fault: no metadata message
SendMetaNone(r) == r

\* socket.send(JSON.stringify({name: file.name, size: file.size, index, total}))
SendMeta(r) ==
  [r EXCEPT !.wire = Append(@, Frame("meta", r.file.name, r.file.size,
                                     r.index, r.total, 0, 0))]

\* socket.send(value) of the n MiB read at offset bytesSent: a socket that is
\* not open sends nothing
SendBinary(r, n) ==
  LET w == r.wire
      b == Frame("bin", r.file.name, 0, 0, 0, r.bytesSent, r.bytesSent + n)
  IN IF r.sock # "OPEN" THEN w
     ELSE IF Len(w) > 0 /\ w[Len(w)].kind = "bin" /\ w[Len(w)].name = b.name
                /\ w[Len(w)].to = b.from
          THEN [w EXCEPT ![Len(w)].to = b.to]
          ELSE Append(w, b)

\* a socket that is closed and whose onopen function has returned is garbage
Dead(r) == r.sock = "CLOSED" /\ r.pc \notin {"read", "bp"}
GC(x) == [t \in DOMAIN x |-> IF Dead(x[t]) THEN Free ELSE x[t]]
FreeSlots(x) == {t \in DOMAIN x : x[t].sock = "FREE"}
\* the slot of a new socket: a free one, else the oldest socket the model
\* tracks is forgotten (its promise is settled: nothing awaits it)
NewSlot(x) == IF FreeSlots(x) # {} THEN Min(FreeSlots(x)) ELSE Min(DOMAIN x)

\* socket.close()
CloseSock(s) == IF s \in {"CONNECTING", "OPEN"} THEN "CLOSING" ELSE s
SendClose(r) == IF r.sock \in {"CONNECTING", "OPEN"} THEN Append(r.wire, CloseFrame)
                ELSE r.wire

\* resolve() / reject(): a settled promise stays as it is
Settle(p, outcome) == IF p = "pending" THEN outcome ELSE p

\* fault: an unknown size is compared like a declared one
CloseVerdictSized(known, total, received) ==
  IF received = total THEN "completed" ELSE "incomplete"

\* fault: the byte counts are compared the wrong way
CloseVerdictMore(known, total, received) ==
  IF ~known \/ received > total THEN "completed" ELSE "incomplete"

\* step 7: what a clean close means for the session
CloseVerdict(known, total, received) ==
  IF ~known \/ received = total THEN "completed" ELSE "incomplete"

\* the bytes the peer has been handed
Received(r) == r.bytesSent - r.bufferedAmount

(* ----------------------------- sendFiles ------------------------------ *)

\* lines 551-555, after the loop
\* fault: the final status ignores the cancel flag
EndRunIgnoreCancel(q, x, allSucceeded) ==
  /\ fileQueue' = q
  /\ xfers' = GC([t \in DOMAIN x |-> [x[t] EXCEPT !.inRun = FALSE]])
  /\ sendStatus' = IF allSucceeded THEN "success" ELSE "error"
  /\ currentFileIndex' = -1
  /\ cancelSendingRef' = FALSE
  /\ run' = NoRun

EndRun(q, x, allSucceeded) ==
  /\ fileQueue' = q
  /\ xfers' = GC([t \in DOMAIN x |-> [x[t] EXCEPT !.inRun = FALSE]])
  /\ sendStatus' = IF cancelSendingRef THEN "idle"
                   ELSE IF allSucceeded THEN "success" ELSE "error"
  /\ currentFileIndex' = -1
  /\ cancelSendingRef' = FALSE
  /\ run' = NoRun

\* errMsg.includes('Cancelled by receiver')
CancelledByReceiver(errMsg) == errMsg = "Cancelled by receiver"

\* fault: the next item is not marked 'sending' before its transfer starts
OnResolvedNoMark(x) ==
  LET i == run.i
      q1 == updateItemStatus(fileQueue, i, "completed", NoError)
      g == GC(x)
  IN IF i + 1 < Len(run.files)
     THEN IF cancelSendingRef
          THEN /\ EndRun(updateItemStatus(q1, i + 1, "failed", "Cancelled"), x, FALSE)
               /\ UNCHANGED alert
          ELSE /\ xfers' = [g EXCEPT ![NewSlot(g)] =
                               NewSocket(run.files[i + 2], i + 1, Len(run.files))]
               /\ fileQueue' = q1
               /\ currentFileIndex' = i + 1
               /\ run' = [run EXCEPT !.i = i + 1, !.cur = NewSlot(g)]
               /\ UNCHANGED <<sendStatus, cancelSendingRef, alert>>
     ELSE /\ EndRun(q1, x, TRUE)
          /\ UNCHANGED alert

\* line 538 and the next iteration up to its await, lines 525-537
OnResolved(x) ==
  LET i == run.i
      q1 == updateItemStatus(fileQueue, i, "completed", NoError)
      g == GC(x)
  IN IF i + 1 < Len(run.files)
     THEN IF cancelSendingRef
          THEN /\ EndRun(updateItemStatus(q1, i + 1, "failed", "Cancelled"), x, FALSE)
               /\ UNCHANGED alert
          ELSE /\ xfers' = [g EXCEPT ![NewSlot(g)] =
                               NewSocket(run.files[i + 2], i + 1, Len(run.files))]
               /\ fileQueue' = updateItemStatus(q1, i + 1, "sending", NoError)
               /\ currentFileIndex' = i + 1
               /\ run' = [run EXCEPT !.i = i + 1, !.cur = NewSlot(g)]
               /\ UNCHANGED <<sendStatus, cancelSendingRef, alert>>
     ELSE /\ EndRun(q1, x, TRUE)
          /\ UNCHANGED alert

\* fault: the catch block does not break, the loop goes on to the next item
OnRejectedContinue(x, errMsg) ==
  LET i == run.i
      q1 == updateItemStatus(fileQueue, i, "failed", errMsg)
      g == GC(x)
  IN /\ IF i + 1 < Len(run.files)
        THEN /\ xfers' = [g EXCEPT ![NewSlot(g)] =
                             NewSocket(run.files[i + 2], i + 1, Len(run.files))]
             /\ fileQueue' = updateItemStatus(q1, i + 1, "sending", NoError)
             /\ currentFileIndex' = i + 1
             /\ run' = [run EXCEPT !.i = i + 1, !.cur = NewSlot(g)]
             /\ UNCHANGED <<sendStatus, cancelSendingRef>>
        ELSE EndRun(q1, x, FALSE)
     /\ UNCHANGED alert

\* the catch block of the loop body, lines 539-548
OnRejected(x, errMsg) ==
  LET byReceiver == CancelledByReceiver(errMsg)
      shown == IF byReceiver THEN "send.cancelledByReceiver" ELSE errMsg
  IN /\ EndRun(updateItemStatus(fileQueue, run.i, "failed", shown), x, FALSE)
     /\ alert' = IF byReceiver THEN "send.cancelledByReceiver" ELSE alert

\* the task that changed socket t into r (code: the close code it saw, or 0),
\* and the continuation of sendFiles it wakes up
Step(t, r, code) ==
  LET x == [xfers EXCEPT ![t] = r]
      settled == xfers[t].promise = "pending" /\ r.promise # "pending"
  IN /\ IF settled /\ run.active /\ run.cur = t
        THEN IF r.promise = "resolved" THEN OnResolved(x)
             ELSE OnRejected(x, r.promise)
        ELSE /\ xfers' = GC(x)
             /\ UNCHANGED <<fileQueue, sendStatus, currentFileIndex,
                            cancelSendingRef, run, alert>>
     /\ UNCHANGED <<rest, picker, isAndroid, sendingProgress, android>>
     /\ last' = IF settled \/ code # 0
                THEN [index |-> r.index, size |-> r.file.size,
                      sent |-> r.bytesSent, code |-> code, outcome |-> r.promise,
                      settled |-> settled]
                ELSE last

\* sendFiles up to its first await, lines 516-537
\* fault: the run starts without clearing the cancel flag
SendFilesKeepFlag ==
  /\ ~isAndroid
  /\ sendStatus # "sending"
  /\ Len(fileQueue) > 0
  /\ xfers' = [xfers EXCEPT ![NewSlot(xfers)] = NewSocket(fileQueue[1].file, 0, Len(fileQueue))]
  /\ run' = [active |-> TRUE,
             files |-> [k \in 1..Len(fileQueue) |-> fileQueue[k].file],
             i |-> 0, cur |-> NewSlot(xfers),
             fresh |-> \A k \in 1..Len(fileQueue) : fileQueue[k].status = "pending",
             edited |-> FALSE, stale |-> cancelSendingRef]
  /\ UNCHANGED cancelSendingRef
  /\ sendStatus' = "sending"
  /\ currentFileIndex' = 0
  /\ fileQueue' = updateItemStatus(fileQueue, 0, "sending", NoError)
  /\ alert' = "none"
  /\ last' = NoLast
  /\ UNCHANGED <<rest, picker, isAndroid, sendingProgress, android>>

SendFiles ==
  /\ ~isAndroid
  /\ sendStatus # "sending"
  /\ Len(fileQueue) > 0
  /\ xfers' = [xfers EXCEPT ![NewSlot(xfers)] = NewSocket(fileQueue[1].file, 0, Len(fileQueue))]
  /\ run' = [active |-> TRUE,
             files |-> [k \in 1..Len(fileQueue) |-> fileQueue[k].file],
             i |-> 0, cur |-> NewSlot(xfers),
             fresh |-> \A k \in 1..Len(fileQueue) : fileQueue[k].status = "pending",
             edited |-> FALSE, stale |-> cancelSendingRef]
  /\ cancelSendingRef' = FALSE
  /\ sendStatus' = "sending"
  /\ currentFileIndex' = 0
  /\ fileQueue' = updateItemStatus(fileQueue, 0, "sending", NoError)
  /\ alert' = "none"
  /\ last' = NoLast
  /\ UNCHANGED <<rest, picker, isAndroid, sendingProgress, android>>

(* --------------------------- sendSingleFile --------------------------- *)

\* fault: the cancel branch rejects but does not return, the loop goes on
CancelPathNoReturn(r) ==
  [r EXCEPT !.pc = "read", !.value = 0,
            !.hasError = TRUE, !.promise = Settle(@, "Cancelled by user")]

\* the cancel branch of the loop, lines 446-452 and 461-467
CancelPath(r) ==
  [r EXCEPT !.pc = "cancelled", !.value = 0, !.sock = CloseSock(@),
            !.wire = SendClose(r),
            !.hasError = TRUE, !.promise = Settle(@, "Cancelled by user")]

\* fault: the top of the loop does not look at the cancel flag
LoopTopNoCheck(r, cancelled) == [r EXCEPT !.pc = "read", !.value = 0]

\* the top of for (;;): the cancel check, then await reader.read()
LoopTop(r, cancelled) ==
  IF cancelled THEN CancelPath(r) ELSE [r EXCEPT !.pc = "read", !.value = 0]

\* socket.send(value); bytesSent += value.byteLength
SendChunk(r, n) ==
  [r EXCEPT !.bytesSent = @ + n, !.bufferedAmount = @ + n,
            !.wire = SendBinary(r, n)]

\* fault: no back-pressure wait
MustWaitNever(r) == FALSE

\* while (socket.bufferedAmount > HIGH_WATER_MARK)
MustWait(r) == r.bufferedAmount > HIGH_WATER_MARK

\* socket.onopen up to its first await: the metadata message, then the loop
SockOpen(t) ==
  /\ xfers[t].sock = "CONNECTING"
  /\ Step(t, LoopTop(SendMeta([xfers[t] EXCEPT !.sock = "OPEN",
                                                !.peer = "receiving"]),
                     cancelSendingRef), 0)

\* reader.read() returned a chunk of n MiB
ReadChunk(t, n) ==
  /\ xfers[t].pc = "read"
  /\ n <= xfers[t].file.size - xfers[t].bytesSent
  /\ Step(t, IF MustWait(xfers[t])
             THEN [xfers[t] EXCEPT !.pc = "bp", !.value = n]
             ELSE LoopTop(SendChunk(xfers[t], n), cancelSendingRef), 0)

\* reader.read() returned done: break, socket.close()
ReadDone(t) ==
  /\ xfers[t].pc = "read"
  /\ xfers[t].bytesSent = xfers[t].file.size
  /\ Step(t, [xfers[t] EXCEPT !.pc = "finished", !.sock = CloseSock(@),
                              !.wire = SendClose(xfers[t])], 0)

\* reader.read() threw: the catch of onopen, lines 492-495
ReadError(t) ==
  /\ xfers[t].pc = "read"
  /\ Step(t, [xfers[t] EXCEPT !.pc = "threw", !.hasError = TRUE,
                              !.promise = Settle(@, "NotReadableError")], 0)

\* the 50 ms timer of the back-pressure wait fired, lines 459-470
BpTick(t) ==
  /\ xfers[t].pc = "bp"
  /\ cancelSendingRef \/ ~MustWait(xfers[t])
  /\ Step(t, IF cancelSendingRef THEN CancelPath(xfers[t])
             ELSE LoopTop(SendChunk(xfers[t], xfers[t].value), cancelSendingRef), 0)

\* fault: onclose without the test of the close code
OnCloseAnyCode(r, code) ==
  [r EXCEPT !.sock = "CLOSED",
            !.promise = IF r.hasError THEN @ ELSE Settle(@, "resolved")]

\* socket.onclose
OnClose(r, code) ==
  [r EXCEPT !.sock = "CLOSED",
            !.hasError = IF code = CANCEL_CODE THEN TRUE ELSE @,
            !.promise = IF r.hasError THEN @
                        ELSE IF code = CANCEL_CODE THEN Settle(@, "Cancelled by receiver")
                        ELSE Settle(@, "resolved")]

\* socket.onerror, then onclose of the failed connection (one task)
OnError(r) ==
  OnClose([r EXCEPT !.hasError = TRUE, !.promise = Settle(@, "Connection failed")],
          ABNORMAL_CODE)

(* ------------------------- the network and peer ----------------------- *)

\* the peer while it reads frames of this connection
Reading(r) == r.peer \in {"receiving", "cancelRequested"}

\* one MiB leaves the send buffer and reaches the peer as a binary frame;
\* a receiver whose cancel flag is set answers it with a close of code 4001
Deliver(t) ==
  /\ xfers[t].sock \in {"OPEN", "CLOSING"}
  /\ Reading(xfers[t])
  /\ xfers[t].bufferedAmount > 0
  /\ Step(t, IF xfers[t].peer = "cancelRequested"
             THEN [xfers[t] EXCEPT !.peer = "cancelled4001"]
             ELSE [xfers[t] EXCEPT !.bufferedAmount = @ - 1], 0)

\* the receiving user cancels: the receive cancel flag is set
RxCancel(t) ==
  /\ xfers[t].sock \in {"OPEN", "CLOSING"}
  /\ xfers[t].peer = "receiving"
  /\ Step(t, [xfers[t] EXCEPT !.peer = "cancelRequested"], 0)

\* the receiver sees the sender's close after the last buffered byte:
\* Completed when the byte count matches, otherwise incomplete (file deleted)
RxClose(t) ==
  /\ xfers[t].sock = "CLOSING"
  /\ Reading(xfers[t])
  /\ xfers[t].bufferedAmount = 0
  /\ Step(t, [xfers[t] EXCEPT !.peer = CloseVerdict(TRUE, xfers[t].file.size,
                                                     Received(xfers[t]))], 0)

\* the close event after the closing handshake the sender started
SockCloseAck(t) ==
  /\ xfers[t].sock = "CLOSING"
  /\ xfers[t].peer \in {"completed", "incomplete"}
  /\ Step(t, OnClose(xfers[t], NORMAL_CODE), NORMAL_CODE)

\* the close event of the receiver's cancel
SockCloseCancelled(t) ==
  /\ xfers[t].sock \in {"OPEN", "CLOSING"}
  /\ xfers[t].peer = "cancelled4001"
  /\ Step(t, OnClose(xfers[t], CANCEL_CODE), CANCEL_CODE)

\* the peer ends the connection with a normal close of its own
SockCloseByPeer(t) ==
  /\ xfers[t].sock = "OPEN"
  /\ Reading(xfers[t])
  /\ Step(t, OnClose([xfers[t] EXCEPT !.peer = "gone"], NORMAL_CODE), NORMAL_CODE)

\* the connection fails: refused, reset, unreachable
NetError(t) ==
  /\ xfers[t].sock \in {"CONNECTING", "OPEN", "CLOSING"}
  /\ Step(t, OnError([xfers[t] EXCEPT !.peer = IF Reading(xfers[t]) THEN "lost" ELSE @]),
          ABNORMAL_CODE)

(* --------------------------- the send screen -------------------------- *)

\* onChange of the file input / onDrop: setFileQueue(items)
SelectFiles(sel) ==
  /\ ~isAndroid
  /\ fileQueue' = [k \in 1..Len(sel) |-> Item(sel[k])]
  /\ run' = [run EXCEPT !.edited = run.active]
  /\ UNCHANGED <<rest, picker, isAndroid, sendStatus, currentFileIndex, cancelSendingRef,
                 sendingProgress, xfers, android, alert, last>>

\* removeFileFromQueue, offered on pending items
RemoveFile(j) ==
  /\ fileQueue[j].status = "pending"
  /\ fileQueue' = [k \in 1..(Len(fileQueue) - 1) |->
                     IF k < j THEN fileQueue[k] ELSE fileQueue[k + 1]]
  /\ run' = [run EXCEPT !.edited = run.active]
  /\ UNCHANGED <<rest, picker, isAndroid, sendStatus, currentFileIndex, cancelSendingRef,
                 sendingProgress, xfers, android, alert, last>>

\* the cancel button of a run that is over is still on the screen: the state
\* updates of lines 552-554 are drawn by a later task, and a click that was
\* queued before it reaches cancelSending with no run active
ButtonLeft == ~run.active /\ last.settled /\ last.index >= 0
\* cancelSending, behind the two cancel buttons (lines 883, 910)
CancelSending ==
  /\ \/ currentFileIndex >= 0
     \/ sendingProgress /\ sendStatus = "sending"
     \/ ButtonLeft
  /\ cancelSendingRef' = TRUE
  /\ sendingProgress' = FALSE
  /\ UNCHANGED <<rest, picker, isAndroid, fileQueue, sendStatus, currentFileIndex,
                 run, xfers, android, alert, last>>

\* clearSendStatus, behind the close button of the success / error banner
ClearSendStatus ==
  /\ sendStatus \in {"success", "error"}
  /\ sendStatus' = "idle"
  /\ UNCHANGED <<rest, picker, isAndroid, fileQueue, currentFileIndex, cancelSendingRef,
                 sendingProgress, run, xfers, android, alert, last>>

(* --------------------------- the Android path ------------------------- *)

\* what send_files_android can reject with
AndroidErrors == {"Cancelled by user", "Cancelled by receiver",
                  "Broken pipe (os error 32)",
                  "Connection reset by peer (os error 104)",
                  "Connection refused (os error 111)"}

\* errorMsg.includes(tag), for the tags handleAndroidSend looks for
Includes(errorMsg, tag) ==
  \/ tag = errorMsg
  \/ tag = "Broken pipe" /\ errorMsg = "Broken pipe (os error 32)"
  \/ tag = "Connection reset" /\ errorMsg = "Connection reset by peer (os error 104)"

\* handleAndroidSend up to await invoke('pick_multiple_files')
AndroidSend ==
  /\ isAndroid
  /\ sendStatus # "sending"
  /\ sendStatus' = "sending"
  /\ sendingProgress' = FALSE
  /\ android' = "picking"
  /\ alert' = "none"
  /\ last' = NoLast
  /\ UNCHANGED <<rest, picker, isAndroid, fileQueue, currentFileIndex, cancelSendingRef,
                 run, xfers>>

\* the picker returned n uris
AndroidPicked(n) ==
  /\ android = "picking"
  /\ IF n = 0
     THEN sendStatus' = "idle" /\ android' = "idle"
     ELSE android' = "sending" /\ UNCHANGED sendStatus
  /\ UNCHANGED <<rest, picker, isAndroid, fileQueue, currentFileIndex, cancelSendingRef,
                 sendingProgress, run, xfers, alert, last>>

\* the 'file-transfer-progress' event of the running Android send
AndroidProgress ==
  /\ android = "sending"
  /\ ~sendingProgress
  /\ sendingProgress' = TRUE
  /\ UNCHANGED <<rest, picker, isAndroid, fileQueue, sendStatus, currentFileIndex,
                 cancelSendingRef, run, xfers, android, alert, last>>

\* send_files_android resolved
AndroidSent ==
  /\ android = "sending"
  /\ sendStatus' = "success"
  /\ sendingProgress' = FALSE
  /\ android' = "idle"
  /\ UNCHANGED <<rest, picker, isAndroid, fileQueue, currentFileIndex, cancelSendingRef,
                 run, xfers, alert, last>>

\* the status and the alert the catch of handleAndroidSend picks, lines 378-386
AndroidVerdict(errorMsg) ==
  IF Includes(errorMsg, "Cancelled by user")
  THEN [status |-> "idle", alert |-> "none"]
  ELSE IF \/ Includes(errorMsg, "Cancelled by receiver")
          \/ Includes(errorMsg, "Broken pipe")
          \/ Includes(errorMsg, "Connection reset")
       THEN [status |-> "idle", alert |-> "send.cancelledByReceiver"]
       ELSE [status |-> "error", alert |-> "send.failed"]

\* send_files_android rejected with errorMsg
AndroidFailed(errorMsg) ==
  /\ android = "sending"
  /\ errorMsg = "Cancelled by user" => cancelSendingRef
  /\ sendStatus' = AndroidVerdict(errorMsg).status
  /\ alert' = AndroidVerdict(errorMsg).alert
  /\ sendingProgress' = FALSE
  /\ android' = "idle"
  /\ last' = [NoLast EXCEPT !.outcome = errorMsg, !.settled = TRUE]
  /\ UNCHANGED <<rest, picker, isAndroid, fileQueue, currentFileIndex, cancelSendingRef,
                 run, xfers>>

(* ---------------------------- the receiver ---------------------------- *)
(* The transfer listener of the backend and its sessions, after section    *)
(* 4.2 of the specification.  The remote sender is any peer that sends a   *)
(* metadata message, binary frames and a close, or whose connection drops; *)
(* the connection is an ordered stream, so a step is the receiver handling *)
(* the next frame the remote sent.                                         *)

Dirs == {"dirA", "dirB"}
Conns == 1..MaxConns

\* a connection of the listener: the session (st), the save directory it
\* read, the metadata (known: a size was declared, total), the bytes
\* received, the output (out) and the offsets of the source written to it in
\* order, the notifications emitted (receiving, done, cancels), and the close
\* code the receiver sent
NoConn == [st |-> "free", dir |-> "", known |-> FALSE, total |-> 0,
           received |-> 0, out |-> "none", written |-> <<>>,
           receiving |-> 0, done |-> 0, cancels |-> 0, code |-> 0]

NoRecv == [saveDir |-> "", listening |-> FALSE, listeners |-> 0,
           cancelFlag |-> FALSE, conns |-> [c \in Conns |-> NoConn]]

\* fault: every call starts a listener
StartServerAgain(dir) ==
  /\ recv' = [recv EXCEPT !.saveDir = dir, !.listening = TRUE, !.listeners = @ + 1]
  /\ UNCHANGED <<sendVars, disc, chat, clip, more>>

\* start_websocket_server(saveDir): the listener is started once, a repeated
\* call only replaces the save directory
StartServer(dir) ==
  /\ recv' = [recv EXCEPT !.saveDir = dir, !.listening = TRUE,
                          !.listeners = IF recv.listening THEN @ ELSE @ + 1]
  /\ UNCHANGED <<sendVars, disc, chat, clip, more>>

\* a connection as accepted: the save directory is read now
Accepted(dir) == [NoConn EXCEPT !.st = "accepted", !.dir = dir]

\* the listener accepts a connection; it takes the first unused record
Accept(c) ==
  /\ recv.listening
  /\ recv.conns[c].st = "free"
  /\ \A d \in Conns : d < c => recv.conns[d].st # "free"
  /\ recv' = [recv EXCEPT !.conns[c] = Accepted(recv.saveDir)]
  /\ UNCHANGED <<sendVars, disc, chat, clip, more>>

\* step 5: the metadata message opens the output in the connection's save
\* directory and starts the session; {name} alone leaves the size unknown
OnMeta(conn, known, size) ==
  [conn EXCEPT !.st = "receiving", !.known = known, !.total = size,
               !.out = "open", !.receiving = @ + 1]

\* fault: the cancel flag is not looked at
OnBinaryNoCancel(conn, cancelFlag) ==
  [conn EXCEPT !.received = @ + 1, !.written = Append(@, conn.received)]

\* step 6 and the receiver's cancel: a binary frame is written to the
\* output, unless the cancel flag is set: then the connection is closed with
\* 4001, the partial file deleted and the cancellation notified
OnBinary(conn, cancelFlag) ==
  IF cancelFlag
  THEN [conn EXCEPT !.st = "cancelled", !.out = "deleted", !.written = <<>>,
                    !.cancels = @ + 1, !.code = CANCEL_CODE]
  ELSE [conn EXCEPT !.received = @ + 1, !.written = Append(@, conn.received)]

\* the session is dropped: output deleted, cancellation notified
Incomplete(conn) ==
  [conn EXCEPT !.st = "incomplete", !.out = "deleted", !.written = <<>>,
               !.cancels = @ + 1]

\* fault: a clean close always completes the session
OnCleanCloseAlways(conn) ==
  [conn EXCEPT !.st = "completed", !.out = "kept", !.done = @ + 1,
               !.code = NORMAL_CODE]

\* step 7: the clean close
OnCleanClose(conn) ==
  IF CloseVerdict(conn.known, conn.total, conn.received) = "completed"
  THEN [conn EXCEPT !.st = "completed", !.out = "kept", !.done = @ + 1,
                    !.code = NORMAL_CODE]
  ELSE [Incomplete(conn) EXCEPT !.code = NORMAL_CODE]

\* metadata {name, size, index, total}, or {name} alone from a legacy sender
RecvMeta(c, known, size) ==
  /\ recv.conns[c].st = "accepted"
  /\ known \/ size = 0
  /\ recv' = [recv EXCEPT !.cancelFlag = FALSE,
                          !.conns[c] = OnMeta(recv.conns[c], known, size)]
  /\ UNCHANGED <<sendVars, disc, chat, clip, more>>

\* a binary frame
RecvBinary(c) ==
  /\ recv.conns[c].st = "receiving"
  /\ recv.conns[c].received < MaxBytes + (IF recv.cancelFlag THEN 1 ELSE 0)
  /\ recv' = [recv EXCEPT !.conns[c] = OnBinary(recv.conns[c], recv.cancelFlag)]
  /\ UNCHANGED <<sendVars, disc, chat, clip, more>>

\* the close of the remote sender
RecvClose(c) ==
  /\ recv.conns[c].st = "receiving"
  /\ recv' = [recv EXCEPT !.conns[c] = OnCleanClose(recv.conns[c])]
  /\ UNCHANGED <<sendVars, disc, chat, clip, more>>

\* the connection is lost without a close, short of the declared size
ConnLost(c) ==
  /\ recv.conns[c].st = "receiving"
  /\ recv.conns[c].known /\ recv.conns[c].received < recv.conns[c].total
  /\ recv' = [recv EXCEPT !.conns[c] = Incomplete(recv.conns[c])]
  /\ UNCHANGED <<sendVars, disc, chat, clip, more>>

\* the cancel button of the receive screen: invoke('cancel_file_receiving')
CancelReceiving ==
  /\ \E c \in Conns : recv.conns[c].st = "receiving"
  /\ recv' = [recv EXCEPT !.cancelFlag = TRUE]
  /\ UNCHANGED <<sendVars, disc, chat, clip, more>>

(* ---------------------------- discovery ------------------------------- *)

\* the addresses datagrams come from: this node's own and a peer's
OwnIp == "ipSelf"
IPs == {OwnIp, "ipPeer"}
\* instance ids; the local process has the first
OwnId == 1
Ids == 1..MaxIds

\* the registry at startup; swept: a sweep ran since the clock last moved,
\* dropped: a datagram with the own instance id came from another address
NoDisc == [now |-> 0, devices |-> <<>>, swept |-> FALSE, dropped |-> FALSE]

Device(ip, id, now) == [ip |-> ip, instance_id |-> id, last_seen |-> now]
HasIp(devices, ip) == \E k \in 1..Len(devices) : devices[k].ip = ip

\* fault: every advertisement adds an entry
UpsertAppend(devices, d) == Append(devices, d)

\* one entry per ip: refreshed in place, or added at the end
Upsert(devices, d) ==
  IF HasIp(devices, d.ip)
    THEN [k \in 1..Len(devices) |-> IF devices[k].ip = d.ip THEN d ELSE devices[k]]
    ELSE Append(devices, d)

\* fault: the filter compares addresses
IsSelfByIp(ip, id) == ip = OwnIp

\* the self filter: the instance id, not the address
IsSelf(ip, id) == id = OwnId

\* fault: an entry is stale from 30 s on
StaleFrom(d, now) == now - d.last_seen >= STALE_SECS

Stale(d, now) == now - d.last_seen > STALE_SECS

\* listen(): a presence datagram FILETRANSFER:ip:hostname:id arrives
Receive(ip, id) ==
  /\ disc' = IF IsSelf(ip, id)
               THEN [disc EXCEPT !.dropped = @ \/ ip # OwnIp]
               ELSE [disc EXCEPT !.devices = Upsert(@, Device(ip, id, disc.now))]
  /\ UNCHANGED <<sendVars, recv, chat, clip, more>>

\* the background sweep
Sweep ==
  /\ disc' = [disc EXCEPT !.devices = SelectSeq(@, LAMBDA d : ~Stale(d, disc.now)),
                          !.swept = TRUE]
  /\ UNCHANGED <<sendVars, recv, chat, clip, more>>

\* a second passes
Tick ==
  /\ disc.now < MaxTime
  /\ disc' = [disc EXCEPT !.now = @ + 1, !.swept = FALSE]
  /\ UNCHANGED <<sendVars, recv, chat, clip, more>>

(* ------------------------------- chat --------------------------------- *)

\* the peers that chat with this node
ChatPeers == {"ipPeer", "ipThird"}
NoOp == [op |-> "none", ip |-> "", ok |-> FALSE]
\* map: the connection map, entries [ip, conn]; live: the open connections;
\* opened: connections made so far; events: notifications emitted and not
\* yet handled by the page; timers: the pending setTimeout callbacks;
\* inbox: messages delivered to each peer; last: the last operation;
\* chatInput: the input holds text; mine: the is_me entries of chatMessages;
\* theirs: the from_ip of the received entries of chatMessages; chatError:
\* the error text; starts: the handleStartChat calls awaiting their connect
NoChat ==
  [map |-> <<>>, live |-> {}, opened |-> 0, events |-> <<>>,
   activeChatIp |-> "", chatConnectedRef |-> FALSE, timers |-> <<>>,
   sent |-> 0, inbox |-> [p \in ChatPeers |-> 0], last |-> NoOp,
   chatInput |-> FALSE, mine |-> 0, theirs |-> {}, chatError |-> "",
   starts |-> {}]

HasEntry(map, ip) == \E k \in 1..Len(map) : map[k].ip = ip
ConnsOf(map, ip) == {map[k].conn : k \in {j \in 1..Len(map) : map[j].ip = ip}}
Remove(map, ip) == SelectSeq(map, LAMBDA e : e.ip # ip)

\* fault: the entry is added next to the old one
InsertAdd(map, ip, conn) == Append(map, [ip |-> ip, conn |-> conn])

\* the map is keyed by peer IP: an entry for the peer is replaced
Insert(map, ip, conn) == Append(Remove(map, ip), [ip |-> ip, conn |-> conn])

\* a new connection with peer p is stored; the one it replaces is dropped
Stored(ch, p) ==
  [ch EXCEPT !.opened = @ + 1,
             !.map = Insert(@, p, ch.opened + 1),
             !.live = (@ \ ConnsOf(ch.map, p)) \cup {ch.opened + 1}]

\* connect(target_ip): ok when the peer's acceptor answers
ConnectToChat(ch, p, ok) == IF ok THEN Stored(ch, p) ELSE ch

\* the acceptor: an inbound connection is stored, "connected" is emitted
ChatAccept(p) ==
  /\ chat.opened < MaxChatConns
  /\ Len(chat.events) < MaxEvents
  /\ chat' = [Stored(chat, p) EXCEPT
               !.events = Append(@, <<"chat-connected", p>>),
               !.last = [op |-> "accept", ip |-> p, ok |-> TRUE]]
  /\ UNCHANGED <<sendVars, recv, disc, clip, more>>

\* the connection with p closes: its entry goes, "disconnected" is emitted
ChatDrop(p) ==
  /\ HasEntry(chat.map, p)
  /\ Len(chat.events) < MaxEvents
  /\ chat' = [chat EXCEPT
               !.map = Remove(@, p),
               !.live = @ \ ConnsOf(chat.map, p),
               !.events = Append(@, <<"chat-disconnected", p>>),
               !.last = [op |-> "drop", ip |-> p, ok |-> TRUE]]
  /\ UNCHANGED <<sendVars, recv, disc, clip, more>>

Timer(p, why) == [ip |-> p, why |-> why]

\* fault: a chat opened by a peer is not taken up
OnChatConnectedNoAccept(ch, peerIp) ==
  IF peerIp = ch.activeChatIp
    THEN [ch EXCEPT !.timers = IF ~ch.chatConnectedRef
                                 THEN Append(@, Timer(peerIp, "reconnect"))
                                 ELSE @,
                    !.chatConnectedRef = TRUE, !.chatError = ""]
    ELSE ch

\* fault: the listener only marks the chat connected
OnChatConnectedNoTimer(ch, peerIp) ==
  IF peerIp = ch.activeChatIp
    THEN [ch EXCEPT !.chatConnectedRef = TRUE, !.chatError = ""]
    ELSE IF ch.activeChatIp = ""
      THEN [ch EXCEPT !.activeChatIp = peerIp, !.mine = 0, !.theirs = {},
                      !.chatError = "",
                      !.timers = Append(@, Timer(peerIp, "accept")),
                      !.chatConnectedRef = TRUE]
      ELSE ch

\* fault: a chat opened by another peer takes the place of the active one
OnChatConnectedAnyPeer(ch, peerIp) ==
  IF peerIp = ch.activeChatIp
    THEN [ch EXCEPT !.timers = IF ~ch.chatConnectedRef
                                 THEN Append(@, Timer(peerIp, "reconnect"))
                                 ELSE @,
                    !.chatConnectedRef = TRUE, !.chatError = ""]
    ELSE [ch EXCEPT !.activeChatIp = peerIp, !.mine = 0, !.theirs = {},
                    !.chatError = "",
                    !.timers = Append(@, Timer(peerIp, "accept")),
                    !.chatConnectedRef = TRUE]

\* listen('chat-connected'): the peer of the chat came back, or a peer
\* opened a chat while none was selected
OnChatConnected(ch, peerIp) ==
  IF peerIp = ch.activeChatIp
    THEN [ch EXCEPT !.timers = IF ~ch.chatConnectedRef
                                 THEN Append(@, Timer(peerIp, "reconnect"))
                                 ELSE @,
                    !.chatConnectedRef = TRUE, !.chatError = ""]
    ELSE IF ch.activeChatIp = ""
      THEN [ch EXCEPT !.activeChatIp = peerIp, !.mine = 0, !.theirs = {},
                      !.chatError = "",
                      !.timers = Append(@, Timer(peerIp, "accept")),
                      !.chatConnectedRef = TRUE]
      ELSE ch

\* listen('chat-disconnected')
OnChatDisconnected(ch, peerIp) ==
  IF peerIp = ch.activeChatIp
    THEN [ch EXCEPT !.chatConnectedRef = FALSE, !.chatError = "chat.connectionLost"]
    ELSE ch

\* listen('chat-message-received'): the message is appended to chatMessages
OnChatMessage(ch, from_ip) == [ch EXCEPT !.theirs = @ \cup {from_ip}]

\* the page handles the oldest notification
HandleEvent ==
  /\ chat.events # <<>>
  /\ LET e == Head(chat.events)
          ch == [chat EXCEPT !.events = Tail(@),
                             !.last = [op |-> e[1], ip |-> e[2], ok |-> TRUE]]
     IN chat' = IF e[1] = "chat-connected"
                  THEN OnChatConnected(ch, e[2])
                  ELSE IF e[1] = "chat-disconnected"
                    THEN OnChatDisconnected(ch, e[2])
                    ELSE OnChatMessage(ch, e[2])
  /\ UNCHANGED <<sendVars, recv, disc, clip, more>>

\* the 300 ms timer: invoke('connect_to_chat', {targetIp: peerIp}); a
\* failure is logged only
TimerFire(ok) ==
  /\ chat.timers # <<>>
  /\ ok => chat.opened < MaxChatConns
  /\ LET p == Head(chat.timers).ip
     IN chat' = [ConnectToChat(chat, p, ok) EXCEPT
                  !.timers = Tail(@),
                  !.last = [op |-> "connect_to_chat", ip |-> p, ok |-> ok]]
  /\ UNCHANGED <<sendVars, recv, disc, clip, more>>

\* a text frame of peer p arrives on its connection: "message received"
ChatMessage(p) ==
  /\ HasEntry(chat.map, p)
  /\ Len(chat.events) < MaxEvents
  /\ chat' = [chat EXCEPT
               !.events = Append(@, <<"chat-message-received", p>>),
               !.last = [op |-> "frame", ip |-> p, ok |-> TRUE]]
  /\ UNCHANGED <<sendVars, recv, disc, clip, more>>

\* handleStartChat after the invoke: the chat with the peer is opened, or
\* the failure is shown and the selection cleared
OnStartResult(ch, p, ok) ==
  IF ok THEN [ch EXCEPT !.activeChatIp = p, !.mine = 0, !.theirs = {},
                        !.chatConnectedRef = TRUE, !.chatError = ""]
  ELSE [ch EXCEPT !.chatError = "chat.connectionFailed", !.activeChatIp = ""]

\* handleStartChat(device), from the device list shown without a chat, its
\* connect returning before anything else happens
StartChat(p, ok) ==
  /\ chat.activeChatIp = ""
  /\ chat.starts = {}
  /\ ok => chat.opened < MaxChatConns
  /\ chat' = [OnStartResult(ConnectToChat(chat, p, ok), p, ok) EXCEPT
               !.last = [op |-> "start", ip |-> p, ok |-> ok]]
  /\ UNCHANGED <<sendVars, recv, disc, clip, more>>

\* handleStartChat(device) up to its await: setChatError(null) and the
\* invoke of connect_to_chat
StartChatInvoke(p) ==
  /\ chat.activeChatIp = ""
  /\ p \notin chat.starts
  /\ chat' = [chat EXCEPT !.chatError = "", !.starts = @ \cup {p},
                          !.last = [op |-> "click", ip |-> p, ok |-> TRUE]]
  /\ UNCHANGED <<sendVars, recv, disc, clip, more>>

\* the connect_to_chat of a handleStartChat returns and the handler goes on
StartChatReturn(p, ok) ==
  /\ p \in chat.starts
  /\ ok => chat.opened < MaxChatConns
  /\ chat' = [OnStartResult(ConnectToChat(chat, p, ok), p, ok) EXCEPT
               !.starts = @ \ {p},
               !.last = [op |-> "start", ip |-> p, ok |-> ok]]
  /\ UNCHANGED <<sendVars, recv, disc, clip, more>>

\* the operator types into the input, enabled while the chat is connected
TypeChat ==
  /\ chat.activeChatIp # "" /\ chat.chatConnectedRef
  /\ ~chat.chatInput
  /\ chat' = [chat EXCEPT !.chatInput = TRUE,
                          !.last = [op |-> "type", ip |-> chat.activeChatIp, ok |-> TRUE]]
  /\ UNCHANGED <<sendVars, recv, disc, clip, more>>

\* fault: the message is logged whatever the invoke returns
OnSendResultAlways(ch, ok) == [ch EXCEPT !.mine = @ + 1, !.chatInput = FALSE]

\* handleSendChatMessage after the invoke: the message is logged and the
\* input cleared, or the failure is shown in an alert
OnSendResult(ch, ok) ==
  IF ok THEN [ch EXCEPT !.mine = @ + 1, !.chatInput = FALSE] ELSE ch

\* handleSendChatMessage: send(target_ip, content) looks the peer up and
\* writes the frame, or fails with NotConnected
SendChatMessage ==
  /\ chat.activeChatIp # "" /\ chat.chatConnectedRef
  /\ chat.chatInput
  /\ chat.sent < MaxMsgs
  /\ LET p == chat.activeChatIp
         ok == HasEntry(chat.map, p)
     IN chat' = [OnSendResult(chat, ok) EXCEPT
                  !.sent = @ + 1,
                  !.inbox[p] = IF ok THEN @ + 1 ELSE @,
                  !.last = [op |-> "send", ip |-> p, ok |-> ok]]
  /\ UNCHANGED <<sendVars, recv, disc, clip, more>>

\* handleDisconnectChat: disconnect(target_ip) closes and removes
DisconnectChat ==
  /\ chat.activeChatIp # ""
  /\ chat' = [chat EXCEPT
               !.map = Remove(@, chat.activeChatIp),
               !.live = @ \ ConnsOf(chat.map, chat.activeChatIp),
               !.activeChatIp = "", !.chatConnectedRef = FALSE, !.mine = 0,
               !.theirs = {},
               !.last = [op |-> "disconnect", ip |-> chat.activeChatIp, ok |-> TRUE]]
  /\ UNCHANGED <<sendVars, recv, disc, clip, more>>

\* handleLeaveChatMode: disconnectAll() closes and removes every connection
LeaveChatMode ==
  /\ chat.last.op # "leave"
  /\ chat' = [chat EXCEPT
               !.map = <<>>, !.live = {},
               !.activeChatIp = "", !.chatConnectedRef = FALSE, !.mine = 0,
               !.theirs = {},
               !.last = [op |-> "leave", ip |-> chat.activeChatIp, ok |-> TRUE]]
  /\ UNCHANGED <<sendVars, recv, disc, clip, more>>

(* ----------------------------- clipboard ------------------------------ *)

\* the nodes that sync their clipboards, each connected to every other
Nodes == 1..MaxNodes
\* clipboard texts: the one every node holds at first, and a new one
Texts == {"old", "new"}
None == ""

\* the content digest of a ClipboardMessage
Hash(x) == "#" \o x

\* board: the system clipboard; known: the "last known" hash; inbox: the
\* ClipboardMessages received and not yet handled; writing: the content of
\* the message being handled, its hash stored and its text not yet applied;
\* got: the content last received since the last local copy
Node(x) == [board |-> x, known |-> Hash(x), inbox |-> <<>>, writing |-> None, got |-> None]
\* every clipboard holds the same text and every poll has seen it; copied:
\* the text of the last local copy
Synced == [node |-> [n \in Nodes |-> Node("old")], changes |-> 0, copied |-> "old"]

Others(n) == Nodes \ {n}

\* the poll broadcasts only when the hash differs from the last known one
MustBroadcast(nd) == Hash(nd.board) # nd.known

\* the poll task of node n, every 500 ms: read, hash, compare, broadcast
ClipPoll(n) ==
  LET nd == clip.node[n]
  IN /\ MustBroadcast(nd)
     /\ \A m \in Others(n) : Len(clip.node[m].inbox) < MaxInbox
     /\ clip' = [clip EXCEPT !.node =
          [m \in Nodes |->
             IF m = n THEN [nd EXCEPT !.known = Hash(nd.board)]
                      ELSE [clip.node[m] EXCEPT !.inbox = Append(@, nd.board)]]]
     /\ UNCHANGED <<sendVars, recv, disc, chat, more>>

\* a ClipboardMessage is taken up: the last known hash is updated first
OnClipMessage(nd) ==
  [nd EXCEPT !.inbox = Tail(@), !.known = Hash(Head(nd.inbox)),
             !.writing = Head(nd.inbox), !.got = Head(nd.inbox)]

ClipReceive(n) ==
  /\ clip.node[n].inbox # <<>>
  /\ clip.node[n].writing = None
  /\ clip' = [clip EXCEPT !.node[n] = OnClipMessage(@)]
  /\ UNCHANGED <<sendVars, recv, disc, chat, more>>

\* then the text is applied to the local clipboard
ClipApply(n) ==
  /\ clip.node[n].writing # None
  /\ clip' = [clip EXCEPT !.node[n] =
                 [@ EXCEPT !.board = clip.node[n].writing, !.writing = None]]
  /\ UNCHANGED <<sendVars, recv, disc, chat, more>>

\* the user of node n copies a text
ClipCopy(n, x) ==
  /\ clip.changes < MaxCopies
  /\ x # clip.node[n].board
  /\ clip' = [clip EXCEPT !.node[n] = [@ EXCEPT !.board = x, !.got = None],
                          !.changes = @ + 1, !.copied = x]
  /\ UNCHANGED <<sendVars, recv, disc, chat, more>>

(* --------------------------- two chatting nodes ----------------------- *)

(* Two nodes in chat mode, each with the page of App.tsx and a connection   *)
(* manager after section 4.3 of the specification.  A link is one          *)
(* connection between them: opened by connect on one node, taken by the     *)
(* acceptor of the other.  A node that replaces or removes a map entry     *)
(* closes the link it held; the other end reads the close.                 *)

DuoNodes == {"ipA", "ipB"}
Peer(n) == IF n = "ipA" THEN "ipB" ELSE "ipA"
Links == 1..MaxLinks

\* a link: by: the node that connected; accepted: the acceptor of the
\* other node has taken it; closer: the node that closed it
FreeLink == [st |-> "free", by |-> "", accepted |-> FALSE, closer |-> ""]

\* the chat state of a page
NoPage == [activeChatIp |-> "", chatConnectedRef |-> FALSE, timers |-> <<>>,
           chatError |-> "", mine |-> 0, theirs |-> {}, chatInput |-> FALSE]

\* entry: each node's map entry for the other node (0: none); events: the
\* notifications each page has not handled yet; started: the operator
\* started the chat; connects: the connect_to_chat calls of the timers
NoDuo == [page |-> [n \in DuoNodes |-> NoPage],
          entry |-> [n \in DuoNodes |-> 0],
          links |-> [c \in Links |-> FreeLink],
          events |-> [n \in DuoNodes |-> <<>>],
          started |-> FALSE, last |-> NoOp]

FreeLinks(d) == {c \in Links : d.links[c].st = "free"}

\* node n lets go of link c: the link closes; a link the other end closed
\* already, and whose close n has not read, is gone
CloseLink(links, c, n) ==
  IF c = 0 THEN links
  ELSE IF links[c].st = "open"
    THEN [links EXCEPT ![c].st = "closed", ![c].closer = n]
    ELSE IF links[c].st = "closed" /\ links[c].closer # n
      THEN [links EXCEPT ![c] = FreeLink]
      ELSE links

\* connect(target_ip) on node n: a link is opened and registered under the
\* peer's IP, in place of the entry there was
DuoConnect(d, n) ==
  LET c == Min(FreeLinks(d))
      opened == [d.links EXCEPT ![c] = [FreeLink EXCEPT !.st = "open", !.by = n]]
  IN [d EXCEPT !.links = CloseLink(opened, d.entry[n], n), !.entry[n] = c]

\* handleStartChat(device) on node n, its connect succeeding
DuoStart(n) ==
  /\ ~duo.started
  /\ duo' = [DuoConnect(duo, n) EXCEPT
              !.page[n] = OnStartResult(@, Peer(n), TRUE),
              !.started = TRUE,
              !.last = [op |-> "start", ip |-> n, ok |-> TRUE]]
  /\ UNCHANGED <<sendVars, recv, disc, chat, clip, plugin, rxui>>

\* the acceptor of node n takes link c: it is stored in place of the entry
\* there was, and "connected" is emitted with the peer IP
DuoAccept(n, c) ==
  /\ duo.links[c].st # "free" /\ duo.links[c].by = Peer(n)
  /\ ~duo.links[c].accepted
  /\ Len(duo.events[n]) < MaxEvents
  /\ duo' = [duo EXCEPT
              !.links = CloseLink([@ EXCEPT ![c].accepted = TRUE], duo.entry[n], n),
              !.entry[n] = c,
              !.events[n] = Append(@, <<"chat-connected", Peer(n)>>),
              !.last = [op |-> "accept", ip |-> n, ok |-> TRUE]]
  /\ UNCHANGED <<sendVars, recv, disc, chat, clip, plugin, rxui>>

\* node n reads the close of link c: the entry of the peer is removed and
\* "disconnected" is emitted with the peer IP
DuoClosed(n, c) ==
  /\ duo.links[c].st = "closed" /\ duo.links[c].closer = Peer(n)
  /\ duo.links[c].by = n \/ duo.links[c].accepted
  /\ Len(duo.events[n]) < MaxEvents
  /\ LET gone == [duo.links EXCEPT ![c] = FreeLink]
         held == IF duo.entry[n] = c THEN 0 ELSE duo.entry[n]
     IN duo' = [duo EXCEPT
                 !.links = CloseLink(gone, held, n),
                 !.entry[n] = 0,
                 !.events[n] = Append(@, <<"chat-disconnected", Peer(n)>>),
                 !.last = [op |-> "closed", ip |-> n, ok |-> TRUE]]
  /\ UNCHANGED <<sendVars, recv, disc, chat, clip, plugin, rxui>>

\* the page of node n handles its oldest notification
DuoHandle(n) ==
  /\ duo.events[n] # <<>>
  /\ LET ev == Head(duo.events[n])
     IN duo' = [duo EXCEPT
                 !.events[n] = Tail(@),
                 !.page[n] = IF ev[1] = "chat-connected"
                               THEN OnChatConnected(@, ev[2])
                               ELSE IF ev[1] = "chat-disconnected"
                                 THEN OnChatDisconnected(@, ev[2])
                                 ELSE OnChatMessage(@, ev[2]),
                 !.last = [op |-> ev[1], ip |-> n, ok |-> TRUE]]
  /\ UNCHANGED <<sendVars, recv, disc, chat, clip, plugin, rxui>>

\* handleSendChatMessage on node n: send(target_ip, content) fails with
\* NotConnected without an entry; the frame written on an open link that
\* the peer has taken is read there and emitted as "message received"
DuoSend(n) ==
  /\ duo.page[n].activeChatIp # "" /\ duo.page[n].chatConnectedRef
  /\ duo.page[n].mine < MaxMsgs
  /\ Len(duo.events[Peer(n)]) < MaxEvents
  /\ LET c == duo.entry[n]
         ok == c # 0
         read == ok /\ duo.links[c].st = "open" /\ duo.links[c].accepted
     IN duo' = [duo EXCEPT
                 !.page[n] = OnSendResult(@, ok),
                 !.events[Peer(n)] = IF read THEN Append(@, <<"chat-message-received", n>>)
                                     ELSE @,
                 !.last = [op |-> "send", ip |-> n, ok |-> ok]]
  /\ UNCHANGED <<sendVars, recv, disc, chat, clip, plugin, rxui>>

\* the 300 ms timer of node n: invoke('connect_to_chat', {targetIp: peerIp})
DuoTimer(n) ==
  /\ duo.page[n].timers # <<>>
  /\ FreeLinks(duo) # {}
  /\ duo' = [DuoConnect(duo, n) EXCEPT
              !.page[n].timers = Tail(@),
              !.last = [op |-> "connect_to_chat", ip |-> n, ok |-> TRUE]]
  /\ UNCHANGED <<sendVars, recv, disc, chat, clip, plugin, rxui>>

(* -------------------------- the storage plugin ------------------------ *)

(* StoragePlugin.kt: the writers opened for the transfer sessions of the   *)
(* backend, and the pickers.  The sessions are tasks on a thread pool      *)
(* (section 5 of the specification), so two openWriter calls can be in the *)
(* plugin at once; nextHandle is a plain var, its ++ a read and a write.   *)

\* the documents createDocument can make, named by their URI
Docs == 1..MaxDocs
\* the handles: those the counter can reach
WriterHandles == 1..(MaxDocs + 1)
\* the threads that call into the plugin
Threads == 1..MaxThreads
\* the invokes of pickFolder / pickMultipleFiles; picker k is the one that
\* invoke k launched
Picks == 1..MaxPicks

NoCall == [pc |-> "idle", doc |-> 0, handle |-> 0]
NoReply == [cmd |-> "none", arg |-> 0, ok |-> FALSE, msg |-> ""]

\* outputStreams, documentUris: the two maps, 0 where a handle has no entry;
\* doc, stream: the documents of the provider and their output streams;
\* calls: the openWriter call of each thread; returned: the handles that
\* openWriter resolved with, in order; released: the handles closeWriter
\* and deleteDocument took out of the maps; reply: the last resolve or
\* reject;
\* pendingInvoke: 0 for null; shown: the pickers on screen, the last
\* launched on top; issued: the pick invokes made; settled: for each
\* invoke, the pickers whose result resolved or rejected it
NoPlugin ==
  [nextHandle |-> 1,
   outputStreams |-> [h \in WriterHandles |-> 0],
   documentUris |-> [h \in WriterHandles |-> 0],
   doc |-> [d \in Docs |-> "none"], stream |-> [d \in Docs |-> "none"],
   calls |-> [t \in Threads |-> NoCall], returned |-> <<>>, released |-> {},
   reply |-> NoReply,
   pendingInvoke |-> 0, shown |-> <<>>, issued |-> {},
   settled |-> [i \in Picks |-> <<>>]]

Reply(cmd, arg, ok, msg) == [cmd |-> cmd, arg |-> arg, ok |-> ok, msg |-> msg]

\* openWriter up to the read of nextHandle: createDocument makes a new
\* document, openOutputStream opens it; or createDocument fails
OpenWriterCreate(t, ok) ==
  /\ plugin.calls[t].pc = "idle"
  /\ \E d \in Docs : plugin.doc[d] = "none"
  /\ LET d == Min({x \in Docs : plugin.doc[x] = "none"})
     IN plugin' =
          IF ok
          THEN [plugin EXCEPT
                 !.doc[d] = "exists", !.stream[d] = "open",
                 !.calls[t] = [pc |-> "read", doc |-> d, handle |-> plugin.nextHandle]]
          ELSE [plugin EXCEPT
                 !.reply = Reply("openWriter", 0, FALSE, "Failed to create document")]
  /\ UNCHANGED <<sendVars, recv, disc, chat, clip, duo, rxui>>

\* the rest of openWriter: the write of nextHandle++, the two map entries
\* and the resolve with the handle
OpenWriterReturn(t) ==
  /\ plugin.calls[t].pc = "read"
  /\ LET h == plugin.calls[t].handle
         d == plugin.calls[t].doc
     IN plugin' = [plugin EXCEPT
                    !.nextHandle = h + 1,
                    !.outputStreams[h] = d, !.documentUris[h] = d,
                    !.returned = Append(@, h),
                    !.calls[t] = NoCall,
                    !.reply = Reply("openWriter", h, TRUE, "")]
  /\ UNCHANGED <<sendVars, recv, disc, chat, clip, duo, rxui>>

\* openWriter with the AtomicLong counter (the second StoragePlugin of the
\* file): getAndIncrement hands every call its own handle
OpenWriterAtomic(t) ==
  /\ plugin.calls[t].pc = "idle"
  /\ \E d \in Docs : plugin.doc[d] = "none"
  /\ LET d == Min({x \in Docs : plugin.doc[x] = "none"})
         h == plugin.nextHandle
     IN plugin' = [plugin EXCEPT
                    !.doc[d] = "exists", !.stream[d] = "open",
                    !.nextHandle = h + 1,
                    !.outputStreams[h] = d, !.documentUris[h] = d,
                    !.returned = Append(@, h),
                    !.reply = Reply("openWriter", h, TRUE, "")]
  /\ UNCHANGED <<sendVars, recv, disc, chat, clip, duo, rxui>>

\* writeChunk(handle, data_base64)
WriteChunk(h) ==
  /\ plugin' =
       IF plugin.outputStreams[h] = 0
       THEN [plugin EXCEPT !.reply = Reply("writeChunk", h, FALSE, "Invalid handle")]
       ELSE IF plugin.stream[plugin.outputStreams[h]] = "open"
         THEN [plugin EXCEPT !.reply = Reply("writeChunk", h, TRUE, "")]
         ELSE [plugin EXCEPT !.reply = Reply("writeChunk", h, FALSE, "Write error")]
  /\ UNCHANGED <<sendVars, recv, disc, chat, clip, duo, rxui>>

\* closeWriter(handle)
CloseWriter(h) ==
  /\ plugin' =
       IF plugin.outputStreams[h] = 0
       THEN [plugin EXCEPT
              !.documentUris[h] = 0,
              !.reply = Reply("closeWriter", h, FALSE, "Invalid handle")]
       ELSE [plugin EXCEPT
              !.outputStreams[h] = 0, !.documentUris[h] = 0,
              !.stream[plugin.outputStreams[h]] = "closed",
              !.released = @ \cup {h},
              !.reply = Reply("closeWriter", h, TRUE, "")]
  /\ UNCHANGED <<sendVars, recv, disc, chat, clip, duo, rxui>>

\* the documents whose URI openWriter has returned
Returned(p) == {d \in Docs : p.doc[d] # "none" /\ \A t \in Threads : p.calls[t].doc # d}

\* deleteDocument(document_uri): the writer found for the URI is removed
\* from the maps and closed, then the document is deleted
DeleteDocument(d) ==
  /\ d \in Returned(plugin)
  /\ LET found == {h \in WriterHandles : plugin.documentUris[h] = d}
         closed == IF found = {} THEN plugin
                   ELSE LET h == Min(found)
                        IN [plugin EXCEPT
                             !.stream[plugin.outputStreams[h]] = "closed",
                             !.outputStreams[h] = 0, !.documentUris[h] = 0,
                             !.released = @ \cup {h}]
     IN plugin' = [closed EXCEPT
                    !.doc[d] = "deleted",
                    !.reply = Reply("deleteDocument", d, plugin.doc[d] = "exists", "")]
  /\ UNCHANGED <<sendVars, recv, disc, chat, clip, duo, rxui>>

\* the results of a picker: a selection, an empty one, or RESULT_CANCELED
PickResults == {"selected", "empty", "cancelled"}

\* pendingInvoke = invoke; launcher.launch(intent)
Pick(p, i, kind) ==
  [p EXCEPT !.pendingInvoke = i, !.issued = @ \cup {i},
            !.shown = Append(@, [picker |-> i, kind |-> kind])]

\* pickFolder(invoke): the next invoke of the page
PickFolder(i) ==
  /\ i \notin plugin.issued /\ \A k \in Picks : k < i => k \in plugin.issued
  /\ plugin' = Pick(plugin, i, "pickFolder")
  /\ UNCHANGED <<sendVars, recv, disc, chat, clip, duo, rxui>>

\* pickMultipleFiles(invoke)
PickMultipleFiles(i) ==
  /\ i \notin plugin.issued /\ \A k \in Picks : k < i => k \in plugin.issued
  /\ plugin' = Pick(plugin, i, "pickMultipleFiles")
  /\ UNCHANGED <<sendVars, recv, disc, chat, clip, duo, rxui>>

\* the callback of either launcher: val invoke = pendingInvoke ?: return;
\* pendingInvoke = null; then resolve or reject with the picker's result
OnPickerResult(p, k, res) ==
  IF p.pendingInvoke = 0 THEN p
  ELSE [p EXCEPT !.pendingInvoke = 0,
                 !.settled[p.pendingInvoke] = Append(@, [picker |-> k, result |-> res]),
                 !.reply = Reply(p.shown[Len(p.shown)].kind, p.pendingInvoke,
                                 res = "selected", res)]

\* the picker on top returns and its launcher's callback runs
PickerResult(res) ==
  /\ plugin.shown # <<>>
  /\ LET top == plugin.shown[Len(plugin.shown)]
     IN plugin' = [OnPickerResult(plugin, top.picker, res) EXCEPT
                    !.shown = SubSeq(@, 1, Len(@) - 1)]
  /\ UNCHANGED <<sendVars, recv, disc, chat, clip, duo, rxui>>

(* --------------------------- the receive screen ----------------------- *)

(* The receive panel of App.tsx and the listeners that feed it.  The       *)
(* notifications come from the transfer sessions of the backend, one        *)
(* session per inbound connection (section 4.2 of the specification); the  *)
(* notifications of one session arrive in the order it emitted them.        *)

\* the files that senders transfer to this node, each by its own connection
RxFiles == 1..MaxRxFiles

\* receivingFile, receivingProgress (its fileName), receiveCancelledFile:
\* 0 for null; receivedFiles: the list shown; timers: the pending 3 s
\* timers; cancelling: the cancel button's invoke has not returned;
\* started, ended: the files whose file-receiving, and whose file-received
\* or file-receive-cancelled, the page has handled
NoRxUi == [receivingFile |-> 0, receivingProgress |-> 0, receivedFiles |-> <<>>,
           receiveCancelledFile |-> 0, timers |-> 0, cancelling |-> FALSE,
           started |-> {}, ended |-> {}]

\* the inbound transfers in progress, as the page has been told
InProgress(ui) == ui.started \ ui.ended

\* [event.payload, ...prev].slice(0, 10)
Recent(f, prev) == SubSeq(<<f>> \o prev, 1, IF Len(prev) + 1 > KEEP_RECENT
                                             THEN KEEP_RECENT ELSE Len(prev) + 1)

\* listen('file-receiving')
OnFileReceiving(ui, f) == [ui EXCEPT !.receivingFile = f]

\* listen('file-transfer-progress'), the receive side
OnFileProgress(ui, f) == [ui EXCEPT !.receivingProgress = f]

\* listen('file-received')
OnFileReceived(ui, f) ==
  [ui EXCEPT !.receivingFile = 0, !.receivingProgress = 0,
             !.receivedFiles = Recent(f, @)]

\* listen('file-receive-cancelled')
OnFileReceiveCancelled(ui, f) ==
  [ui EXCEPT !.receivingFile = 0, !.receivingProgress = 0,
             !.receiveCancelledFile = f, !.timers = @ + 1]

\* a session has its metadata: file-receiving is emitted and handled
FileReceiving(f) ==
  /\ f \notin rxui.started
  /\ rxui' = [OnFileReceiving(rxui, f) EXCEPT !.started = @ \cup {f}]
  /\ UNCHANGED <<sendVars, recv, disc, chat, clip, duo, plugin>>

\* a session reports progress: the listener sets receivingProgress and
\* sendingProgress
FileProgress(f) ==
  /\ f \in InProgress(rxui)
  /\ rxui' = OnFileProgress(rxui, f)
  /\ sendingProgress' = TRUE
  /\ UNCHANGED <<picker, isAndroid, fileQueue, sendStatus, currentFileIndex,
                 cancelSendingRef, run, xfers, android, alert, last,
                 recv, disc, chat, clip, duo, plugin>>

\* a session completes
FileReceived(f) ==
  /\ f \in InProgress(rxui)
  /\ rxui' = [OnFileReceived(rxui, f) EXCEPT !.ended = @ \cup {f}]
  /\ UNCHANGED <<sendVars, recv, disc, chat, clip, duo, plugin>>

\* a session is dropped or cancelled
FileReceiveCancelled(f) ==
  /\ f \in InProgress(rxui)
  /\ rxui' = [OnFileReceiveCancelled(rxui, f) EXCEPT !.ended = @ \cup {f}]
  /\ UNCHANGED <<sendVars, recv, disc, chat, clip, duo, plugin>>

\* setTimeout(() => setReceiveCancelledFile(null), 3000)
CancelledTimer ==
  /\ rxui.timers > 0
  /\ rxui' = [rxui EXCEPT !.receiveCancelledFile = 0, !.timers = @ - 1]
  /\ UNCHANGED <<sendVars, recv, disc, chat, clip, duo, plugin>>

\* the cancel button, shown with the progress bar: up to the await of
\* invoke('cancel_file_receiving')
CancelReceiveClick ==
  /\ rxui.receivingFile # 0 /\ rxui.receivingProgress # 0
  /\ ~rxui.cancelling
  /\ rxui' = [rxui EXCEPT !.cancelling = TRUE]
  /\ UNCHANGED <<sendVars, recv, disc, chat, clip, duo, plugin>>

\* the invoke returns: setReceivingFile(null); setReceivingProgress(null)
CancelReceiveReturn ==
  /\ rxui.cancelling
  /\ rxui' = [rxui EXCEPT !.cancelling = FALSE, !.receivingFile = 0,
                          !.receivingProgress = 0]
  /\ UNCHANGED <<sendVars, recv, disc, chat, clip, duo, plugin>>

(* ------------------------------ the system ---------------------------- *)

InitWith(selections, tracked) ==
  /\ picker = selections
  /\ isAndroid \in BOOLEAN
  /\ fileQueue = <<>>
  /\ sendStatus = "idle"
  /\ currentFileIndex = -1
  /\ cancelSendingRef = FALSE
  /\ sendingProgress = FALSE
  /\ run = NoRun
  /\ xfers = [t \in 1..tracked |-> Free]
  /\ android = "idle"
  /\ alert = "none"
  /\ last = NoLast
  /\ recv = NoRecv
  /\ disc = NoDisc
  /\ chat = NoChat
  /\ clip = Synced
  /\ duo = NoDuo
  /\ plugin = NoPlugin
  /\ rxui = NoRxUi

\* small files, queues of up to MaxQueue items
Init == InitWith(QueueSelections, 1)
\* the large file, alone or followed by a
InitStream == InitWith(BigSelections, 1)

\* every step but the back-pressure timer
NextQueue ==
  \/ \E sel \in picker : SelectFiles(sel)
  \/ \E j \in 1..Len(fileQueue) : RemoveFile(j)
  \/ SendFiles
  \/ CancelSending
  \/ ClearSendStatus
  \/ \E t \in Slots : SockOpen(t)
  \/ \E t \in Slots, n \in 1..MaxChunk : ReadChunk(t, n)
  \/ \E t \in Slots : ReadDone(t)
  \/ \E t \in Slots : ReadError(t)
  \/ \E t \in Slots : Deliver(t)
  \/ \E t \in Slots : RxCancel(t)
  \/ \E t \in Slots : RxClose(t)
  \/ \E t \in Slots : SockCloseAck(t)
  \/ \E t \in Slots : SockCloseCancelled(t)
  \/ \E t \in Slots : SockCloseByPeer(t)
  \/ \E t \in Slots : NetError(t)
  \/ AndroidSend
  \/ \E n \in 0..1 : AndroidPicked(n)
  \/ AndroidProgress
  \/ AndroidSent
  \/ \E e \in AndroidErrors : AndroidFailed(e)

Next ==
  \/ NextQueue
  \/ \E t \in Slots : BpTick(t)

\* the queue of small files: no file reaches the high-water mark, so the
\* back-pressure timer is never started
Spec == Init /\ [][NextQueue]_vars
\* the large file
SpecStream == InitStream /\ [][Next]_vars
\* the file reader and the socket keep delivering their events: a socket
\* that can open opens, a read that was started returns, the back-pressure
\* timer fires, buffered frames drain and a close handshake is answered
FairEvents ==
  /\ WF_vars(\E t \in Slots : SockOpen(t))
  /\ WF_vars(\E t \in Slots : ReadDone(t) \/ \E n \in 1..MaxChunk : ReadChunk(t, n))
  /\ WF_vars(\E t \in Slots : BpTick(t))
  /\ WF_vars(\E t \in Slots : Deliver(t))
  /\ WF_vars(\E t \in Slots : RxClose(t))
  /\ WF_vars(\E t \in Slots : SockCloseAck(t))
  /\ WF_vars(\E t \in Slots : SockCloseCancelled(t))
SpecStreamFair == SpecStream /\ FairEvents

\* discovery alone
InitDiscovery == InitWith({}, 1) /\ ~isAndroid
NextDiscovery ==
  \/ \E ip \in IPs, id \in Ids : Receive(ip, id)
  \/ Sweep
  \/ Tick
SpecDiscovery == InitDiscovery /\ [][NextDiscovery]_vars

\* clipboard sync alone
InitClip == InitWith({}, 1) /\ ~isAndroid
NextClip ==
  \/ \E n \in Nodes : ClipPoll(n)
  \/ \E n \in Nodes : ClipReceive(n)
  \/ \E n \in Nodes : ClipApply(n)
  \/ \E n \in Nodes, x \in Texts : ClipCopy(n, x)
SpecClip == InitClip /\ [][NextClip]_vars
\* every task keeps running: the polls tick, the messages are handled
FairClip ==
  \A n \in Nodes :
    WF_vars(ClipPoll(n)) /\ WF_vars(ClipReceive(n)) /\ WF_vars(ClipApply(n))
SpecClipFair == SpecClip /\ FairClip

\* chat alone
InitChat == InitWith({}, 1) /\ ~isAndroid
NextChat ==
  \/ \E p \in ChatPeers : ChatAccept(p)
  \/ \E p \in ChatPeers : ChatDrop(p)
  \/ HandleEvent
  \/ \E ok \in BOOLEAN : TimerFire(ok)
  \/ \E p \in ChatPeers, ok \in BOOLEAN : StartChat(p, ok)
  \/ TypeChat
  \/ SendChatMessage
  \/ DisconnectChat
SpecChat == InitChat /\ [][NextChat]_vars
\* the chat page with everything its listeners and handlers interleave with:
\* messages of the peers, connects that take their time, the mode switch
NextChatPage ==
  \/ \E p \in ChatPeers : ChatAccept(p)
  \/ \E p \in ChatPeers : ChatDrop(p)
  \/ \E p \in ChatPeers : ChatMessage(p)
  \/ HandleEvent
  \/ \E ok \in BOOLEAN : TimerFire(ok)
  \/ \E p \in ChatPeers : StartChatInvoke(p)
  \/ \E p \in ChatPeers, ok \in BOOLEAN : StartChatReturn(p, ok)
  \/ DisconnectChat
  \/ LeaveChatMode
SpecChatPage == InitChat /\ [][NextChatPage]_vars

\* the sizes a sender declares: the empty file and the largest one
Sizes == {0, MaxBytes}

\* two nodes in chat mode
InitDuo == InitWith({}, 1) /\ ~isAndroid
NextDuo ==
  \/ \E n \in DuoNodes : DuoStart(n)
  \/ \E n \in DuoNodes, c \in Links : DuoAccept(n, c)
  \/ \E n \in DuoNodes, c \in Links : DuoClosed(n, c)
  \/ \E n \in DuoNodes : DuoHandle(n)
  \/ \E n \in DuoNodes : DuoTimer(n)
  \/ \E n \in DuoNodes : DuoSend(n)
SpecDuo == InitDuo /\ [][NextDuo]_vars
\* the acceptors, the connection tasks, the pages and the timers all run
FairDuo ==
  /\ \A n \in DuoNodes : WF_vars(\E c \in Links : DuoAccept(n, c))
  /\ \A n \in DuoNodes : WF_vars(\E c \in Links : DuoClosed(n, c))
  /\ \A n \in DuoNodes : WF_vars(DuoHandle(n))
  /\ \A n \in DuoNodes : WF_vars(DuoTimer(n))
SpecDuoFair == SpecDuo /\ FairDuo

\* the writers of the storage plugin
InitPlugin == InitWith({}, 1) /\ isAndroid
NextPlugin ==
  \/ \E t \in Threads, ok \in BOOLEAN : OpenWriterCreate(t, ok)
  \/ \E t \in Threads : OpenWriterReturn(t)
  \/ \E h \in WriterHandles : WriteChunk(h)
  \/ \E h \in WriterHandles : CloseWriter(h)
  \/ \E d \in Docs : DeleteDocument(d)
SpecPlugin == InitPlugin /\ [][NextPlugin]_vars
\* the pickers of the storage plugin
NextPicker ==
  \/ \E i \in Picks : PickFolder(i)
  \/ \E i \in Picks : PickMultipleFiles(i)
  \/ \E res \in PickResults : PickerResult(res)
SpecPicker == InitPlugin /\ [][NextPicker]_vars
\* the same with the AtomicLong counter
NextPluginAtomic ==
  \/ \E t \in Threads : OpenWriterAtomic(t)
  \/ \E h \in WriterHandles : WriteChunk(h)
  \/ \E h \in WriterHandles : CloseWriter(h)
  \/ \E d \in Docs : DeleteDocument(d)
SpecPluginAtomic == InitPlugin /\ [][NextPluginAtomic]_vars

\* the receive panel
InitRxUi == InitWith({}, 1) /\ ~isAndroid
NextRxUi ==
  \/ \E f \in RxFiles : FileReceiving(f)
  \/ \E f \in RxFiles : FileProgress(f)
  \/ \E f \in RxFiles : FileReceived(f)
  \/ \E f \in RxFiles : FileReceiveCancelled(f)
  \/ CancelledTimer
  \/ CancelReceiveClick
  \/ CancelReceiveReturn
SpecRxUi == InitRxUi /\ [][NextRxUi]_vars

\* the receive screen and the transfer listener, the send screen untouched
InitReceive == InitWith({}, 1) /\ ~isAndroid
NextReceive ==
  \/ \E d \in Dirs : StartServer(d)
  \/ \E c \in Conns : Accept(c)
  \/ \E c \in Conns, known \in BOOLEAN, size \in Sizes : RecvMeta(c, known, size)
  \/ \E c \in Conns : RecvBinary(c)
  \/ \E c \in Conns : RecvClose(c)
  \/ \E c \in Conns : ConnLost(c)
  \/ CancelReceiving
SpecReceive == InitReceive /\ [][NextReceive]_vars

(* ------------------------------ properties ---------------------------- *)

Sending(q) == {k \in 1..Len(q) : q[k].status = "sending"}
Connected == {t \in Slots : /\ xfers[t].inRun
                             /\ xfers[t].sock \in {"CONNECTING", "OPEN", "CLOSING"}}
\* the step is one of the queue edits (every step of sendFiles changes a
\* socket or sendStatus)
QueueEdit == fileQueue' # fileQueue /\ UNCHANGED <<xfers, sendStatus>>
\* the step settles the promise a run awaits
Settles == last' # last /\ last'.settled /\ run.active
Rejects == Settles /\ last'.outcome # "resolved"

\* C1: within one sendFiles run at most one queue item has status 'sending',
\* at most one connection of the run is open, and a run whose N transfers all
\* succeed has opened exactly N connections, one per item in queue order.
C1_AtMostOneSending ==
  run.active => Cardinality(Sending(fileQueue)) <= 1 /\ Cardinality(Connected) <= 1
C1_OnePerItem ==
  (run.active /\ sendStatus' = "success" /\ sendStatus = "sending")
     => run.i + 1 = Len(run.files)
C1_Serial == []C1_AtMostOneSending /\ [][C1_OnePerItem]_vars

\* C2 (as the code has it): while the queue is as the run found it, a
\* 'pending' item only becomes 'sending', or 'failed' with 'Cancelled' when the
\* cancel flag is seen before its transfer starts; a 'sending' item only
\* becomes 'completed' or 'failed'; a 'pending' item never becomes 'completed'.
C2_Transition(k) ==
  LET old == fileQueue[k]
      new == fileQueue'[k]
  IN /\ old.status = "pending" =>
          \/ new.status \in {"pending", "sending"}
          \/ /\ new.status = "failed" /\ new.error = "Cancelled"
             /\ cancelSendingRef /\ k = run.i + 2
     /\ old.status = "sending" => new.status \in {"sending", "completed", "failed"}
C3_TerminalFinal ==
  [][~QueueEdit
       => \A k \in 1..Len(fileQueue) :
            fileQueue[k].status \in {"completed", "failed"}
              => fileQueue'[k].status = fileQueue[k].status]_vars

\* C4: when the transfer of item i is rejected the run ends in that step: no
\* connection is opened for a later item, every other item keeps its status
\* (the later ones of a fresh queue stay 'pending'), item i is 'failed', and
\* without a cancel request sendStatus is 'error'.
C4_Stop ==
  Rejects =>
    /\ ~run'.active
    /\ \A t \in Slots : xfers'[t].sock # "CONNECTING"
    /\ Len(fileQueue') = Len(fileQueue)
    /\ \A k \in 1..Len(fileQueue) :
          IF k = run.i + 1 THEN fileQueue'[k].status = "failed"
          ELSE fileQueue'[k] = fileQueue[k]
    /\ run.fresh
          => \A k \in (run.i + 2)..Len(fileQueue) : fileQueue'[k].status = "pending"
    /\ ~cancelSendingRef => sendStatus' = "error"
C4_Idle ==
  ~run.active => \A t \in Slots : /\ xfers[t].sock # "CONNECTING"
                                   /\ xfers[t].promise # "pending"
C4_FailureEndsRun == []C4_Idle /\ [][C4_Stop]_vars
\* a run that failed on an item with pending items after it
C4_Witness ==
  /\ ~run.active /\ sendStatus = "error" /\ last.outcome = "Connection failed"
  /\ last.index + 1 < Len(fileQueue)
  /\ fileQueue[last.index + 1].status = "failed"
  /\ \A k \in (last.index + 2)..Len(fileQueue) : fileQueue[k].status = "pending"

\* the step keeps socket t on the same transfer
SameXfer(t) == xfers[t].sock # "FREE" /\ xfers'[t].sock \notin {"FREE", "CONNECTING"}

\* C5: once cancelSending() has set the cancel flag, the next cancel check of
\* the running transfer stops it: no read and no chunk passes a check, the
\* cancelled loop closes its socket and sends nothing more, its transfer fails
\* with 'Cancelled by user' and the run ends; a flag seen before the next file
\* starts fails that item with 'Cancelled' and opens no connection.
C5_Check(t) ==
  LET r == xfers[t]
      r2 == xfers'[t]
  IN SameXfer(t) =>
       /\ (r.pc \in {"idle", "read", "bp"} /\ r2.pc = "read"
              /\ (r.pc = "read" => r2.bytesSent > r.bytesSent))
             => ~cancelSendingRef
       /\ (r.pc = "bp" /\ r2.bytesSent > r.bytesSent) => ~cancelSendingRef
       /\ (r.pc # "cancelled" /\ r2.pc = "cancelled")
             => /\ cancelSendingRef
                /\ r2.sock \in {"CLOSING", "CLOSED"}
                /\ r.promise = "pending"
                      => /\ r2.promise = "Cancelled by user"
                         /\ ~run'.active /\ sendStatus' = "idle"
                         /\ ~run.edited
                               => /\ fileQueue'[run.i + 1].status = "failed"
                                  /\ fileQueue'[run.i + 1].error = "Cancelled by user"
       /\ r.pc = "cancelled"
             => r2.pc = "cancelled" /\ r2.bytesSent = r.bytesSent
C5_NextFile ==
  /\ (run.active /\ run'.active /\ run'.i # run.i) => ~cancelSendingRef
  /\ (Settles /\ last'.outcome = "resolved" /\ cancelSendingRef
         /\ run.i + 1 < Len(run.files))
       => /\ ~run'.active /\ sendStatus' = "idle"
          /\ \A t \in Slots : xfers'[t].sock # "CONNECTING"
          /\ ~run.edited => /\ fileQueue'[run.i + 2].status = "failed"
                            /\ fileQueue'[run.i + 2].error = "Cancelled"
C5_CancelStops == [][C5_NextFile /\ \A t \in Slots : C5_Check(t)]_vars
\* a transfer cancelled part-way: socket closing, item failed, run over
C5_Witness ==
  \E t \in Slots :
    /\ xfers[t].pc = "cancelled" /\ xfers[t].promise = "Cancelled by user"
    /\ xfers[t].sock = "CLOSING"
    /\ 0 < xfers[t].bytesSent /\ xfers[t].bytesSent < xfers[t].file.size
    /\ sendStatus = "idle" /\ fileQueue[1].error = "Cancelled by user"

\* C6: the receiver of a transfer the sender cancelled before its last byte
\* was sent never ends up with a Completed file.
C6_NoCompleteAfterCancel ==
  \A t \in Slots :
    (/\ xfers[t].promise = "Cancelled by user"
     /\ last.outcome = "Cancelled by user" /\ last.index = xfers[t].index
     /\ last.sent < last.size)
      => xfers[t].peer # "completed"
\* a cancelled transfer whose receiver saw the close and dropped the file
C6_Witness ==
  \E t \in Slots :
    /\ xfers[t].promise = "Cancelled by user" /\ last.outcome = "Cancelled by user"
    /\ last.index = xfers[t].index
    /\ 0 < last.sent /\ last.sent < last.size
    /\ xfers[t].peer = "incomplete"

\* C7: a close event with code 4001 never leaves the transfer resolved or
\* failed with 'Connection failed'; when it settles the transfer the outcome
\* is 'Cancelled by receiver', the run ends, the item is 'failed' with the
\* cancelled-by-receiver text and that alert is shown.
C7_Code ==
  last.code = CANCEL_CODE =>
    /\ last.outcome \notin {"resolved", "Connection failed"}
    /\ last.settled => /\ last.outcome = "Cancelled by receiver"
                       /\ alert = "send.cancelledByReceiver"
                       /\ ~run.active /\ sendStatus # "success"
C7_Item ==
  (Settles /\ last'.code = CANCEL_CODE /\ ~run.edited)
    => /\ fileQueue'[run.i + 1].status = "failed"
       /\ fileQueue'[run.i + 1].error = "send.cancelledByReceiver"
C7_ReceiverCancel == []C7_Code /\ [][C7_Item]_vars
\* a transfer settled by the receiver's cancel
C7_Witness ==
  /\ last.code = CANCEL_CODE /\ last.settled
  /\ last.outcome = "Cancelled by receiver"
  /\ fileQueue[last.index + 1].error = "send.cancelledByReceiver"

\* C8: the cancelled-by-receiver message is only shown for a receiver's
\* cancel; a connection failure is always reported with sendStatus 'error'.
GenericFailure(o) ==
  o \in {"Connection failed", "NotReadableError", "Broken pipe (os error 32)",
         "Connection reset by peer (os error 104)",
         "Connection refused (os error 111)"}
C8_Alert == alert = "send.cancelledByReceiver" => last.outcome = "Cancelled by receiver"
C8_Failure ==
  (last' # last /\ last'.settled /\ GenericFailure(last'.outcome))
    => sendStatus' = "error" /\ alert' # "send.cancelledByReceiver"
C8_FailureIsNotCancel == []C8_Alert /\ [][C8_Failure]_vars

\* C9: a transfer only resolves after a normal close (not 4001) that follows
\* the handing over of every byte of the file.
C9_SuccessIsComplete ==
  (last.settled /\ last.outcome = "resolved")
    => last.code = NORMAL_CODE /\ last.sent = last.size

\* C10: no chunk is handed to the socket while its buffer is above the
\* high-water mark, so the buffer never exceeds the mark by more than a chunk.
C10_Bound ==
  \A t \in Slots : xfers[t].bufferedAmount <= HIGH_WATER_MARK + MaxChunk
C10_Send ==
  \A t \in Slots :
    (SameXfer(t) /\ xfers'[t].bytesSent > xfers[t].bytesSent)
      => xfers[t].bufferedAmount <= HIGH_WATER_MARK
C10_Backpressure == []C10_Bound /\ [][C10_Send]_vars
\* the loop waits with a chunk in hand and the buffer above the mark
C10_Witness ==
  \E t \in Slots : /\ xfers[t].pc = "bp" /\ xfers[t].value > 0
                    /\ xfers[t].bufferedAmount > HIGH_WATER_MARK
                    /\ xfers[t].sock = "OPEN"

\* C11: on every transfer connection nothing is sent before it is open; the
\* first frame is the metadata {name, size, index, total} of the socket's
\* file, then come only binary frames with that file's bytes from offset 0 in
\* order, then the close, and what has been sent is never changed.
C11_Order(r) ==
  LET w == r.wire
  IN /\ r.sock = "CONNECTING" => w = <<>>
     /\ Len(w) <= 3
     /\ Len(w) >= 1 => w[1] = Frame("meta", r.file.name, r.file.size,
                                    r.index, r.total, 0, 0)
     /\ \A k \in 2..Len(w) :
          /\ w[k].kind \in {"bin", "close"}
          /\ w[k].kind = "bin" => /\ k = 2 /\ w[k].name = r.file.name
                                  /\ w[k].from = 0 /\ w[k].to <= r.bytesSent
                                  /\ w[k].to <= r.file.size
          /\ w[k].kind = "close" => k = Len(w)
     /\ (r.inRun /\ run.active)
          => /\ r.total = Len(run.files) /\ r.index = run.i
             /\ r.file = run.files[r.index + 1]
C11_Grows(t) ==
  LET w == xfers[t].wire
      w2 == xfers'[t].wire
  IN (SameXfer(t) /\ w2 # w)
       => /\ Len(w2) >= Len(w)
          /\ \A k \in 1..Len(w) :
               \/ w2[k] = w[k]
               \/ /\ k = Len(w) /\ w[k].kind = "bin"
                  /\ w2[k] = [w[k] EXCEPT !.to = w2[k].to] /\ w2[k].to > w[k].to
C11_Inv == \A t \in Slots : xfers[t].sock # "FREE" => C11_Order(xfers[t])
CleanClose(c) ==
  /\ recv.conns[c].st = "receiving"
  /\ recv'.conns[c].st \in {"completed", "incomplete"}
  /\ recv'.conns[c].code = NORMAL_CODE
\* the step in which the session of c ends without a cancel of the receiver
Ends(c) ==
  /\ recv.conns[c].st = "receiving"
  /\ recv'.conns[c].st \in {"completed", "incomplete"}
\* the offsets 0 .. n-1 in order
Upto(n) == [k \in 1..n |-> k - 1]
Terminal(conn) == conn.st \in {"completed", "incomplete", "cancelled"}

\* C12: a session of metadata, binary frames and a clean close whose bytes
\* received equal the declared size ends Completed, with one completion
\* notification, no cancellation notification, and the output holding the
\* bytes sent in order; it stays so.
C12_Step(c) ==
  LET old == recv.conns[c]
      new == recv'.conns[c]
  IN (CleanClose(c) /\ old.known /\ old.received = old.total)
       => /\ new.st = "completed" /\ new.out = "kept"
          /\ new.done = 1 /\ new.cancels = 0
          /\ new.written = Upto(old.total)
C12_Stays(c) ==
  recv.conns[c].st = "completed" => recv'.conns[c] = recv.conns[c]
C13_Step(c) ==
  LET old == recv.conns[c]
      new == recv'.conns[c]
  IN (Ends(c) /\ old.known /\ old.received < old.total)
       => /\ new.st = "incomplete" /\ new.out = "deleted" /\ new.written = <<>>
          /\ new.cancels = 1 /\ new.done = 0
C13_Same(c) ==
  LET conn == recv.conns[c]
  IN conn.st \in {"incomplete", "cancelled"}
       => /\ conn.out = "deleted" /\ conn.written = <<>>
          /\ conn.cancels = 1 /\ conn.done = 0
C13_Incomplete ==
  /\ [](\A c \in Conns : C13_Same(c))
  /\ [][\A c \in Conns : C13_Step(c)]_vars
\* a session closed cleanly before its declared byte arrived
C13_Witness ==
  \E c \in Conns :
    /\ recv.conns[c].st = "incomplete" /\ recv.conns[c].code = NORMAL_CODE
    /\ recv.conns[c].known /\ recv.conns[c].received < recv.conns[c].total
    /\ recv.conns[c].out = "deleted"

\* C14: metadata with a name only starts the session that {size: 0} starts,
\* but with the size unknown: whatever number of bytes arrived, the clean
\* close completes it and the output is kept.
C14_Step(c) ==
  LET old == recv.conns[c]
      new == recv'.conns[c]
  IN /\ (old.st = "accepted" /\ new.st = "receiving" /\ ~new.known)
          => new = [OnMeta(old, TRUE, 0) EXCEPT !.known = FALSE]
     /\ (CleanClose(c) /\ ~old.known)
          => /\ new.st = "completed" /\ new.out = "kept"
             /\ new.done = 1 /\ new.cancels = 0
             /\ new.written = Upto(old.received)
C14_Legacy == [][\A c \in Conns : C14_Step(c)]_vars
\* a legacy session completed with bytes received
C14_Witness ==
  \E c \in Conns :
    /\ recv.conns[c].st = "completed" /\ ~recv.conns[c].known
    /\ recv.conns[c].received > 0 /\ recv.conns[c].out = "kept"

\* C15: with the receive cancel flag set, the next binary frame handled for
\* an active transfer closes its connection with 4001, deletes the partial
\* file and emits one cancellation and no completion notification; the
\* cancelled session is never touched again.
C15_Step(c) ==
  LET old == recv.conns[c]
      new == recv'.conns[c]
  IN /\ (old.st = "receiving" /\ recv.cancelFlag /\ new # old /\ ~Ends(c))
          => /\ new.st = "cancelled" /\ new.code = CANCEL_CODE
             /\ new.out = "deleted" /\ new.written = <<>>
             /\ new.cancels = 1 /\ new.done = 0
     /\ Terminal(old) => new = old
C15_Code ==
  \A c \in Conns : recv.conns[c].code = CANCEL_CODE <=> recv.conns[c].st = "cancelled"
C15_ReceiverCancels == []C15_Code /\ [][\A c \in Conns : C15_Step(c)]_vars
\* a transfer cancelled after it had received a byte
C15_Witness ==
  \E c \in Conns :
    /\ recv.conns[c].st = "cancelled" /\ recv.conns[c].received > 0
    /\ recv.conns[c].cancels = 1 /\ recv.conns[c].code = CANCEL_CODE

\* C16: a repeated start_websocket_server with another directory starts no
\* second listener and leaves every connection as it is; a connection writes
\* into the directory that was current when it was accepted.
C16_Step ==
  /\ (recv.listening /\ recv'.saveDir # recv.saveDir)
       => /\ recv'.listeners = recv.listeners /\ recv'.listening
          /\ recv'.conns = recv.conns
  /\ \A c \in Conns :
       /\ (recv.conns[c].st = "free" /\ recv'.conns[c].st # "free")
            => recv'.conns[c].dir = recv.saveDir
       /\ recv.conns[c].st # "free" => recv'.conns[c].dir = recv.conns[c].dir
C16_One == recv.listeners <= 1 /\ (recv.listening <=> recv.listeners = 1)
C16_SaveDir == []C16_One /\ [][C16_Step]_vars
\* a session in the old directory next to one in the new directory
C16_Witness ==
  \E c, d \in Conns :
    /\ recv.conns[c].st = "receiving" /\ recv.conns[c].dir # recv.saveDir
    /\ recv.conns[d].st = "receiving" /\ recv.conns[d].dir = recv.saveDir
    /\ recv.conns[d].received > 0 /\ recv.listeners = 1

(* ------------------------ properties: discovery ---------------------- *)

Entries == {disc.devices[k] : k \in 1..Len(disc.devices)}

\* C17: the registry never holds an entry made from a datagram with the
\* node's own instance id, whatever address it carried; a datagram with
\* another instance id and the node's own address is taken like any other.
C17_NoSelf == \A d \in Entries : d.instance_id # OwnId
C17_OwnIpKept ==
  \A id \in Ids \ {OwnId} :
    LET after == Upsert(disc.devices, Device(OwnIp, id, disc.now))
    IN  /\ ~IsSelf(OwnIp, id)
        /\ \E k \in 1..Len(after) : after[k] = Device(OwnIp, id, disc.now)
C17_SelfFilter == C17_NoSelf /\ C17_OwnIpKept
\* an own-id datagram from the peer's address was dropped and the registry
\* holds a device with the node's own address
C17_Witness ==
  /\ disc.dropped
  /\ \E d \in Entries : d.ip = OwnIp /\ d.instance_id # OwnId

\* C18: a sweep removes the devices with now - last_seen > 30 s and nothing
\* removes a device with now - last_seen <= 30 s; an advertisement sets
\* last_seen of its address to now and the registry keeps one entry per
\* address.
C18_Unique ==
  \A j, k \in 1..Len(disc.devices) :
    disc.devices[j].ip = disc.devices[k].ip => j = k
C18_Swept ==
  disc.swept => \A d \in Entries : disc.now - d.last_seen <= STALE_SECS
C18_Step ==
  /\ \A d \in Entries :
       ~HasIp(disc'.devices, d.ip) => disc.now - d.last_seen > STALE_SECS
  /\ \A k \in 1..Len(disc'.devices) :
       LET d == disc'.devices[k]
       IN  d \notin Entries => d.last_seen = disc.now /\ disc'.now = disc.now
C18_Expiry == [](C18_Unique /\ C18_Swept) /\ [][C18_Step]_vars
\* a device exactly 30 s old that a sweep has left in place, refreshed once
\* before
C18_Witness ==
  /\ disc.swept
  /\ \E d \in Entries : disc.now - d.last_seen = STALE_SECS /\ d.last_seen > 0

(* -------------------------- properties: chat -------------------------- *)

\* a connection with p was stored in this step
StoredStep(p) ==
  /\ chat'.opened = chat.opened + 1
  /\ chat'.last.ip = p /\ chat'.last.ok
  /\ chat'.last.op \in {"accept", "connect_to_chat", "start"}

\* C19: the connection map has at most one entry per peer IP; a connect or
\* an inbound accept for a peer that has an entry replaces it, and the peer
\* then has exactly one entry, the new connection, which is open.
C19_OnePerPeer ==
  /\ \A j, k \in 1..Len(chat.map) : chat.map[j].ip = chat.map[k].ip => j = k
  /\ \A k \in 1..Len(chat.map) : chat.map[k].conn \in chat.live
C19_Step ==
  \A p \in ChatPeers :
    StoredStep(p) =>
      /\ ConnsOf(chat'.map, p) = {chat'.opened}
      /\ chat'.opened \in chat'.live
      /\ Len(chat'.map) = Len(chat.map) + (IF HasEntry(chat.map, p) THEN 0 ELSE 1)
      /\ \A q \in ChatPeers \ {p} : ConnsOf(chat'.map, q) = ConnsOf(chat.map, q)
C19_Replace == []C19_OnePerPeer /\ [][C19_Step]_vars
\* the connect of a timer has replaced the inbound entry of the peer
C19_Witness ==
  /\ chat.last = [op |-> "connect_to_chat", ip |-> chat.activeChatIp, ok |-> TRUE]
  /\ chat.opened >= 2
  /\ ConnsOf(chat.map, chat.activeChatIp) = {chat.opened}
  /\ Len(chat.map) = 2

\* C20: when chat-connected arrives for the selected peer after its
\* chat-disconnected was handled, the page schedules connect_to_chat to
\* that peer and the timer invokes it; from the notification on the chat
\* is marked connected and the connection it announced, when still up,
\* is the peer's entry in the map; a message sent while the peer has its
\* entry is delivered to it.
C20_Step ==
  /\ (/\ chat.events # <<>> /\ chat'.events = Tail(chat.events)
      /\ chat.activeChatIp # "" /\ ~chat.chatConnectedRef
      /\ Head(chat.events) = <<"chat-connected", chat.activeChatIp>>)
       => /\ chat'.timers = Append(chat.timers, Timer(chat.activeChatIp, "reconnect"))
          /\ chat'.chatConnectedRef /\ chat'.activeChatIp = chat.activeChatIp
          /\ chat'.map = chat.map /\ chat'.live = chat.live
  /\ chat'.timers # chat.timers /\ Len(chat'.timers) <= Len(chat.timers)
       => /\ chat'.timers = Tail(chat.timers)
          /\ chat'.last.op = "connect_to_chat"
          /\ chat'.last.ip = Head(chat.timers).ip
          /\ chat'.last.ok => ConnsOf(chat'.map, chat'.last.ip) = {chat'.opened}
  /\ chat'.sent # chat.sent
       => /\ chat'.last.op = "send" /\ chat'.last.ip = chat.activeChatIp
          /\ chat'.last.ok = HasEntry(chat.map, chat.activeChatIp)
          /\ chat'.inbox[chat.activeChatIp]
               = chat.inbox[chat.activeChatIp] + (IF chat'.last.ok THEN 1 ELSE 0)
C20_Reconnect == [][C20_Step]_vars
\* a message was delivered to the peer that came back, before the timer of
\* the reconnect fired
C20_Witness ==
  /\ chat.last = [op |-> "send", ip |-> chat.activeChatIp, ok |-> TRUE]
  /\ chat.timers = <<Timer(chat.activeChatIp, "reconnect")>>
  /\ chat.inbox[chat.activeChatIp] = 1


\* the page handles the notification at the head of the queue
Handles(kind, p) ==
  /\ chat.events # <<>> /\ chat'.events = Tail(chat.events)
  /\ Head(chat.events) = <<kind, p>>

\* C21: a chat-connected notification for peer P handled while no chat is
\* selected makes P the active chat, marks the chat connected and schedules
\* one timer, whose callback is the one connect_to_chat(P) of that
\* notification; a notification handled for the chat then selected and
\* connected schedules nothing.
C21_Step ==
  \A p \in ChatPeers :
    /\ (Handles("chat-connected", p) /\ chat.activeChatIp = "")
         => /\ chat'.activeChatIp = p /\ chat'.chatConnectedRef
            /\ chat'.timers = Append(chat.timers, Timer(p, "accept"))
    /\ (Handles("chat-connected", p) /\ chat.activeChatIp = p /\ chat.chatConnectedRef)
         => chat'.timers = chat.timers
    /\ (chat.timers # <<>> /\ Head(chat.timers) = Timer(p, "accept")
          /\ chat'.timers # chat.timers /\ Len(chat'.timers) <= Len(chat.timers))
         => /\ chat'.timers = Tail(chat.timers)
            /\ chat'.last.op = "connect_to_chat" /\ chat'.last.ip = p
C21_AutoAccept == [][C21_Step]_vars
\* the connect of the auto-accepted chat has been made: the peer's entry is
\* the outbound connection and no timer is left
C21_Witness ==
  /\ chat.last = [op |-> "connect_to_chat", ip |-> chat.activeChatIp, ok |-> TRUE]
  /\ chat.opened = 2 /\ chat.timers = <<>> /\ chat.chatConnectedRef
  /\ ConnsOf(chat.map, chat.activeChatIp) = {2}


(* ------------------------ properties: clipboard ----------------------- *)

\* the poll of node n broadcasts in this step
Broadcasts(n) ==
  /\ clip'.node[n].known # clip.node[n].known
  /\ \E m \in Others(n) : Len(clip'.node[m].inbox) > Len(clip.node[m].inbox)

\* C22: after a node has received a ClipboardMessage with content X, no
\* poll of that node broadcasts X, wherever the poll falls after the hash
\* update (the node's user not having copied anything since).
C22_NoEcho ==
  [][\A n \in Nodes : Broadcasts(n) => clip.node[n].board # clip.node[n].got]_vars

\* every clipboard holds the text last copied, every poll has seen it and no
\* message is on its way
Quiet ==
  \A n \in Nodes :
    /\ clip.node[n].board = clip.copied
    /\ clip.node[n].known = Hash(clip.copied)
    /\ clip.node[n].inbox = <<>> /\ clip.node[n].writing = None

\* C23: with every poll and every receiving task running, the nodes end up
\* for good with the copied text on every clipboard and nothing left to
\* broadcast.
C23_Settles == <>[]Quiet


\* C24: a chat send to a peer without an entry in the connection map fails
\* (NotConnected); a failed send leaves the local log and the input text as
\* they were; the log gains an is_me message only in a send that succeeded.
C24_Step ==
  /\ chat'.sent # chat.sent
       => /\ chat'.last.op = "send"
          /\ chat'.last.ok = HasEntry(chat.map, chat.activeChatIp)
          /\ ~chat'.last.ok
               => /\ chat'.mine = chat.mine /\ chat'.chatInput = chat.chatInput
                  /\ chat'.inbox = chat.inbox
  /\ chat'.mine > chat.mine
       => /\ chat'.last.op = "send" /\ chat'.last.ok
          /\ chat'.sent = chat.sent + 1 /\ chat'.mine = chat.mine + 1
C24_FailedSend == [][C24_Step]_vars
\* a send that failed: the text is still in the input and the log is empty
C24_Witness ==
  /\ chat.last = [op |-> "send", ip |-> chat.activeChatIp, ok |-> FALSE]
  /\ chat.chatInput /\ chat.mine = 0 /\ chat.sent = 1
  /\ ~HasEntry(chat.map, chat.activeChatIp)


\* C25: a cancelSending() call made while a sendFiles run is active is
\* eventually effective: as long as the reader and the socket keep delivering
\* their events the run ends with sendStatus 'idle', and from the call to the
\* end of the run no file after the active one is started.
C25_NoLaterFile ==
  (run.active /\ cancelSendingRef) =>
     /\ run'.active => run'.i = run.i /\ run'.cur = run.cur
     /\ \A t \in Slots : xfers'[t].sock = "CONNECTING" => xfers[t].sock = "CONNECTING"
     /\ ~run'.active => sendStatus' = "idle"
C25_CancelEffective ==
  /\ [][C25_NoLaterFile]_vars
  /\ (run.active /\ cancelSendingRef) ~> (~run.active /\ sendStatus = "idle")
\* a run of two files cancelled during the first: over, idle, second file
\* never started
C25_Witness ==
  /\ ~run.active /\ sendStatus = "idle" /\ Len(fileQueue) = 2
  /\ last.index = 0 /\ last.outcome = "Cancelled by user"
  /\ fileQueue[2].status = "pending"


\* C26: a cancel request made while no send run is active has no effect on
\* the next run: a step that starts a sendFiles run and a step that ends one
\* both leave the cancel flag cleared, so the flag is set during a run only
\* by a cancelSending() call made during that run.
C26_Step ==
  /\ (run.active # run'.active) => ~cancelSendingRef'
  /\ (run.active /\ run'.active /\ cancelSendingRef' /\ ~cancelSendingRef)
       => UNCHANGED <<xfers, fileQueue, run, sendStatus>>
C26_StaleCancel == [][C26_Step]_vars
\* a run started after a cancel request that no run had consumed: its first
\* file went through and the second is on its way
C26_Witness ==
  /\ run.active /\ run.stale /\ ~cancelSendingRef /\ run.i = 1
  /\ fileQueue[1].status = "completed" /\ fileQueue[2].status = "sending"


\* C27: a sendFiles run ends 'success' only if every file of the queue it
\* started with was transferred (its sendSingleFile resolved) and its item is
\* marked 'completed'; a run the user cancelled ends 'idle', and any other run
\* in which a file failed ends 'error'.
C27_Marked(q, files) ==
  \A k \in 1..Len(files) :
    k <= Len(q) /\ q[k].file = files[k] /\ q[k].status = "completed"
C27_End(edits) ==
  (run.active /\ ~run'.active /\ (run.edited => edits)) =>
    /\ sendStatus' = "success" =>
          /\ last'.outcome = "resolved" /\ run.i + 1 = Len(run.files)
          /\ C27_Marked(fileQueue', run.files)
    /\ cancelSendingRef => sendStatus' = "idle"
    /\ (~cancelSendingRef /\ last'.outcome # "resolved") => sendStatus' = "error"
C27_RunVerdict == [][C27_End(TRUE)]_vars
\* the same over the runs whose queue was not edited while they ran
C27_UneditedRuns == [][C27_End(FALSE)]_vars

\* C28: during a run the item shown as 'sending' holds the file that is being
\* transferred, and every file the run transmits is an item of the queue at
\* the position the run addresses (a removed pending item is not sent), also
\* when the queue is edited during the run.
C28_Applies ==
  \A k \in 1..Len(fileQueue) :
    fileQueue[k].status = "sending" =>
      k = run.i + 1 /\ fileQueue[k].file = xfers[run.cur].file
C28_InQueue ==
  \A t \in Slots :
    (xfers[t].inRun /\ xfers[t].sock = "CONNECTING") =>
       /\ xfers[t].index + 1 <= Len(fileQueue)
       /\ fileQueue[xfers[t].index + 1].file = xfers[t].file
C28_IndexedUpdates == run.active => C28_Applies /\ C28_InQueue



\* C29: once a close or an error has settled a transfer with chunks still
\* unsent, its streaming loop stops: the loop's next step neither hands a
\* chunk to the socket nor starts another read or another back-pressure wait.
C29_Settled(r) ==
  r.sock = "CLOSED" /\ r.promise # "pending" /\ r.bytesSent < r.file.size
C29_Step(t) ==
  (SameXfer(t) /\ C29_Settled(xfers[t]) /\ xfers[t].pc \in {"read", "bp"}) =>
     /\ xfers'[t].bytesSent = xfers[t].bytesSent
     /\ xfers'[t] # xfers[t] => xfers'[t].pc \notin {"read", "bp"}
C29_LoopStops == [][\A t \in Slots : C29_Step(t)]_vars


\* C30: sender and receiver agree on the outcome of each file: a transfer
\* whose receiver reported the file Completed is not failed by the sender, and
\* a transfer the sender resolves (its item becomes 'completed') is one whose
\* receiver reported the file Completed.
C30_NotFailed ==
  \A t \in Slots :
    xfers[t].peer = "completed" => xfers[t].promise \in {"pending", "resolved"}
C30_Reported ==
  \A t \in Slots :
    (xfers[t].promise = "pending" /\ SameXfer(t) /\ xfers'[t].promise = "resolved")
      => xfers[t].peer = "completed"
C30_Agree == []C30_NotFailed /\ [][C30_Reported]_vars


(* ------------------------ properties: chat page ------------------------ *)

\* what the chat page shows
Page(ch) == <<ch.activeChatIp, ch.chatConnectedRef, ch.chatError, ch.mine, ch.theirs>>

\* C31: while a chat with peer P is active, handling a chat-connected or a
\* chat-disconnected notification for another peer Q leaves the active peer,
\* the connected flag, the error text and the message log as they are,
\* schedules no connect-back and invokes no connect_to_chat.
C31_Step ==
  \A q \in ChatPeers, kind \in {"chat-connected", "chat-disconnected"} :
    (Handles(kind, q) /\ chat.activeChatIp # "" /\ q # chat.activeChatIp)
      => /\ Page(chat') = Page(chat)
         /\ chat'.timers = chat.timers
         /\ chat'.opened = chat.opened /\ chat'.map = chat.map
C31_SingleSession == [][C31_Step]_vars
\* a chat-connected of another peer was handled during a connected chat
\* with a message in its log
C31_Witness ==
  /\ chat.last.op = "chat-connected" /\ chat.activeChatIp # ""
  /\ chat.last.ip # chat.activeChatIp
  /\ chat.chatConnectedRef /\ chat.timers = <<>> /\ chat.mine = 1


\* C32: whenever the chat is marked connected an active chat peer is set.
C32_ConnectedHasPeer == chat.chatConnectedRef => chat.activeChatIp # ""


\* C33: every received message in the log of the active chat was sent by the
\* active peer: a chat-message-received notification from another peer, or
\* one handled while no chat is active, is not appended to the log.
C33_FromActivePeer ==
  \A p \in chat.theirs : chat.activeChatIp # "" /\ p = chat.activeChatIp


\* C34: after the user disconnected from peer P no connect-back to P that was
\* scheduled before the disconnect is left to fire: the timers of P pending
\* after handleDisconnectChat or handleLeaveChatMode are none, so that
\* connect_to_chat(P) is invoked again only for a new chat or for a
\* chat-connected notification handled after the disconnect.
C34_Step ==
  (chat'.last.op \in {"disconnect", "leave"} /\ chat'.last # chat.last
     /\ chat.activeChatIp # "")
    => \A k \in 1..Len(chat'.timers) : chat'.timers[k].ip # chat.activeChatIp
C34_NoLateConnect == [][C34_Step]_vars

(* ---------------------- properties: two chatting nodes ---------------- *)

\* node n shows the chat with its peer as connected and can send to it
DuoConnected(n) ==
  /\ duo.page[n].activeChatIp = Peer(n) /\ duo.page[n].chatConnectedRef
  /\ duo.entry[n] # 0 /\ duo.links[duo.entry[n]].st = "open"

\* C35: once one node has started a chat with the other, the connect-back
\* protocol comes to rest: from some point on both nodes show the chat as
\* connected and each holds an open connection to the other, for good
C35_Quiesces == [](duo.started => <>[](\A n \in DuoNodes : DuoConnected(n)))


\* the protocol at rest with both nodes connected
DuoAtRest ==
  /\ \A n \in DuoNodes : DuoConnected(n)
  /\ \A n \in DuoNodes : duo.events[n] = <<>> /\ duo.page[n].timers = <<>>
  /\ \A c \in Links : duo.links[c].st \in {"free", "open"}


\* nothing is left to do for the acceptors, the connection tasks, the pages
\* and the timers
DuoQuiet ==
  /\ duo.started
  /\ \A n \in DuoNodes : duo.events[n] = <<>> /\ duo.page[n].timers = <<>>
  /\ \A c \in Links : duo.links[c].st = "free"
                       \/ (duo.links[c].st = "open" /\ duo.links[c].accepted)
\* whenever nothing is left to do, both nodes are connected
DuoQuietConnected == DuoQuiet => \A n \in DuoNodes : DuoConnected(n)

(* ---------------------- properties: the storage plugin ---------------- *)

\* C36: every handle openWriter resolves with is greater than every handle
\* it resolved with before, so no two writers share a handle and none is
\* used again
C36_FreshHandles ==
  \A i, j \in 1..Len(plugin.returned) :
    i < j => plugin.returned[i] < plugin.returned[j]


\* no open output stream is one of a deleted document
C37_NoWriterOnDeleted ==
  \A d \in Docs : plugin.stream[d] = "open" => plugin.doc[d] # "deleted"

\* writeChunk and closeWriter on a handle that closeWriter or deleteDocument
\* released are rejected as "Invalid handle" and change nothing
C37_Step ==
  (/\ plugin'.reply.cmd \in {"writeChunk", "closeWriter"}
   /\ plugin'.reply # plugin.reply
   /\ plugin'.reply.arg \in plugin.released)
  => /\ plugin'.reply.msg = "Invalid handle"
     /\ plugin' = [plugin EXCEPT !.reply = plugin'.reply]

\* C37: no open write stream refers to a deleted document, and a handle
\* released by closeWriter or deleteDocument is rejected from then on
C37_Writers == []C37_NoWriterOnDeleted /\ [][C37_Step]_vars


\* the picker that invoke i launched has returned
PickerBack(i) ==
  /\ i \in plugin.issued
  /\ \A n \in 1..Len(plugin.shown) : plugin.shown[n].picker # i

\* C38: a pick invocation is resolved or rejected only with the result of
\* the picker it launched, at most once, and exactly once by the time that
\* picker has returned
C38_OwnResult ==
  \A i \in Picks :
    /\ \A n \in 1..Len(plugin.settled[i]) : plugin.settled[i][n].picker = i
    /\ Len(plugin.settled[i]) <= 1
    /\ PickerBack(i) => Len(plugin.settled[i]) = 1

(* ---------------------- properties: the receive panel ----------------- *)

\* C39: while an inbound transfer is in progress the panel tracks one
\* (receivingFile is not null), and the progress it shows is that of a
\* file still in progress
C39_Tracked ==
  /\ InProgress(rxui) # {} => rxui.receivingFile # 0
  /\ (rxui.receivingFile # 0 /\ rxui.receivingProgress # 0)
       => rxui.receivingProgress \in InProgress(rxui)

====
